---------------------------- MODULE Spec2Model ----------------------------
(***************************************************************************)
(* Decision core of the Binance perpetual monitor: the rolling price       *)
(* windows, the (base asset, direction) throttle and the streak counters   *)
(* of CacheManager (src/cache_manager.py), and the cycle driver of         *)
(* src/main.py that keeps the same state in module globals.                *)
(*                                                                         *)
(* Time is an integer number of ticks; timestamps of the program are       *)
(* floats, a tick is any fixed fraction of a second.  Python's None is the *)
(* empty tuple; an Optional value x is <<x>> only where noted, otherwise   *)
(* results are tuples and None is <<>>.  A dict is a function whose DOMAIN *)
(* is its key set.  Strings that the code takes apart (instrument symbols, *)
(* alert keys) are sequences of one-character strings.                     *)
(***************************************************************************)
EXTENDS Integers, Sequences, FiniteSets, TLC

-----------------------------------------------------------------------------
(* Bounds of the model *)

\* timestamps handed to the CacheManager methods are drawn from 0..MaxTime
MaxTime == 3
\* window_seconds of a CacheManager is drawn from 1..MaxWindow
MaxWindow == 2
\* number of update_price calls explored on one CacheManager
MaxIngest == 3

\* min_interval of the should_alert calls is drawn from 0..MaxInterval
MaxInterval == 2
\* alert_reset_seconds of a CacheManager is drawn from 1..MaxReset
MaxReset == 2
\* number of state-changing throttle calls explored on one CacheManager
MaxThrottleCalls == 3
\* number of update_alert_streak calls explored by the streak specification
MaxStreakCalls == 3

\* the wall clock when main() starts, in ticks; cycles are 1..MaxDt ticks apart
StartTime == 10
MaxDt == 1
\* number of update_and_check_market calls explored
MaxCycles == 3

\* deque(maxlen=100) of CacheManager.price_history
Maxlen == 100

-----------------------------------------------------------------------------
(* Values *)

None == <<>>

\* prices handed to update_price: a non-positive one and two positive ones
WindowPrices == {0, 1, 2}

Times == 0..MaxTime

BTCUSDT == <<"B", "T", "C", "U", "S", "D", "T">>
BTCUSDC == <<"B", "T", "C", "U", "S", "D", "C">>
ETHUSDT == <<"E", "T", "H", "U", "S", "D", "T">>

\* instruments of the window specification
WindowSymbols == {BTCUSDT, ETHUSDT}

BTC == <<"B", "T", "C">>
ETH == <<"E", "T", "H">>

\* base assets and directions handed to the throttle and streak methods
Bases == {BTC, ETH}
Directions == {"UP", "DOWN"}

\* message identifiers handed to set_last_message_id
MessageIds == {7}

-----------------------------------------------------------------------------
VARIABLES
    window_seconds,            \* CacheManager.window_seconds / WINDOW_MINUTES * 60
    cm_price_history,          \* CacheManager.price_history: market -> symbol -> deque
    op,                        \* the last CacheManager call: name, arguments, return value
    last_sample,               \* history variable: symbol -> the sample last passed to update_price
    ningest,                   \* number of update_price calls made so far
    alert_reset_seconds,       \* CacheManager.alert_reset_seconds
    min_interval,              \* the min_interval every should_alert call is given
    cm_last_alert_key_time,    \* CacheManager.last_alert_key_time: alert key -> timestamp
    cm_alert_streak_state,     \* CacheManager.alert_streak_state: base asset -> AlertStreak
    cm_alert_last_message_id,  \* CacheManager.alert_last_message_id: alert key -> message id
    admitted,                  \* history variable: alert key -> the timestamps should_alert
                               \* admitted for the key, in call order
    ncalls,                    \* number of state-changing throttle and streak calls so far
    streak_log,                \* history variable: the update_alert_streak calls so far, each
                               \* with its arguments and what it returned, in call order
    loop_now_ts,               \* main.py: now_ts of the running update_and_check_market call
    tickers,                   \* main.py: the ticker batch of the running call
    idx,                       \* main.py: position of the for loop in tickers
    cycles,                    \* number of update_and_check_market calls started so far
    price_history,             \* main.py price_history: market -> symbol -> deque
    last_alert_key_time,       \* main.py last_alert_key_time: alert key -> timestamp
    alert_streak_state,        \* main.py alert_streak_state: base asset -> dict
    alert_last_message_id,     \* main.py alert_last_message_id: alert key -> message id
    msg_seq,                   \* number of messages Telegram has accepted so far
    event,                     \* what the loop body did with the last item
    alert_log,                 \* history variable: the <<symbol, direction, time>> of
                               \* every event that passed the throttle check
    upstream_calls,            \* history variable: the outcomes of the upstream calls the
                               \* last fetch_open_interest_stats call made, in order
    cycle_trace,               \* history variable: what the running cycle has done so far,
                               \* in order: admit, lookup_start, lookup_end, deliver
    driver,                    \* main(): where it is ("startup" before the first call of
                               \* update_and_check_market, "fetch" in the loop after
                               \* loop_start was taken, "work" from the call on), whether
                               \* it is in its while loop, loop_start, and whether it has
                               \* slept since its last cycle began
    main_pc,                   \* main(): "running", or "crashed" after an exception that
                               \* nothing caught
    delivery_hist,             \* history variable: the number of send calls so far and,
                               \* per (base asset, direction), the time and the result of
                               \* the last send call and the last identifier a send returned
    clock,                     \* time.time(), in ticks
    cm_coingecko_cache,        \* CacheManager.coingecko_cache: symbol -> MarketCapInfo
    cm_last_coingecko_update,  \* CacheManager.last_coingecko_update
    coingecko_cache,           \* main.py coingecko_cache: symbol -> {mc, fdv}
    last_coingecko_update,     \* main.py last_coingecko_update
    upstream,                  \* the pages CoinGecko serves during the running refresh
    load_pc,                   \* load_coingecko_marketcaps: "idle", "fetch", "dedup", "publish"
    load_page,                 \* load_coingecko_marketcaps: page
    load_data,                 \* load_coingecko_marketcaps: the coins of data not yet visited
    load_cache,                \* load_coingecko_marketcaps: the local cache being built
    load_seen,                 \* history variable: the coins the running refresh has visited
    load_failed,               \* history variable: a page fetch of the running refresh failed
    load_old,                  \* history variable: coingecko_cache when the refresh started
    last_success,              \* history variable: time of the last refresh without a failed fetch
    nrefresh                   \* number of refreshes and CacheManager cache updates so far

windowVars == <<window_seconds, cm_price_history, last_sample, ningest>>
throttleVars == <<alert_reset_seconds, min_interval, cm_last_alert_key_time,
                  cm_alert_streak_state, cm_alert_last_message_id, admitted, ncalls,
                  streak_log>>

mainVars == <<loop_now_ts, tickers, idx, cycles, price_history, last_alert_key_time,
              alert_streak_state, alert_last_message_id, msg_seq, event, alert_log,
              upstream_calls, cycle_trace, delivery_hist, main_pc, driver>>

refVars == <<clock, cm_coingecko_cache, cm_last_coingecko_update, coingecko_cache,
             last_coingecko_update, upstream, load_pc, load_page, load_data, load_cache,
             load_seen, load_failed, load_old, last_success, nrefresh>>

vars == <<op, windowVars, throttleVars, mainVars, refVars>>

-----------------------------------------------------------------------------
(* dict and deque primitives *)

\* d.get(k, default)
Get(d, k, default) == IF k \in DOMAIN d THEN d[k] ELSE default

\* d[k] = v
Put(d, k, v) == (k :> v) @@ d

\* deque(maxlen=n).append(x): a full deque drops its leftmost item
DequeAppendMaxlen(d, x, n) ==
    LET e == Append(d, x) IN IF Len(e) > n THEN Tail(e) ELSE e

\* deque().append(x): no maxlen
DequeAppend(d, x) == Append(d, x)

\* the eviction loop popping a sample as old as the window already
RECURSIVE EvictOld_AtWindowAge(_, _, _)
EvictOld_AtWindowAge(history, timestamp, window) ==
    IF history # <<>> /\ timestamp - history[1][1] >= window
    THEN EvictOld_AtWindowAge(Tail(history), timestamp, window)
    ELSE history

\* while history and (timestamp - history[0][0] > window_seconds): history.popleft()
RECURSIVE EvictOld(_, _, _)
EvictOld(history, timestamp, window) ==
    IF history # <<>> /\ timestamp - history[1][1] > window
    THEN EvictOld(Tail(history), timestamp, window)
    ELSE history

-----------------------------------------------------------------------------
(* CacheManager.update_price / get_price_change *)

\* update_price that evicts by age in every window of the market
UpdatePrice_EvictsEverywhere(ph, market, symbol, timestamp, price, window) ==
    LET history == Get(ph[market], symbol, <<>>)
        appended == DequeAppendMaxlen(history, <<timestamp, price>>, Maxlen)
        own == Put(ph[market], symbol, appended)
    IN [ph EXCEPT ![market] = [s \in DOMAIN own |-> EvictOld(own[s], timestamp, window)]]

\* the price_history map after update_price(market, symbol, timestamp, price)
UpdatePrice(ph, market, symbol, timestamp, price, window) ==
    LET history == Get(ph[market], symbol, <<>>)     \* defaultdict: created on access
        appended == DequeAppendMaxlen(history, <<timestamp, price>>, Maxlen)
    IN [ph EXCEPT ![market] = Put(ph[market], symbol,
                                  EvictOld(appended, timestamp, window))]

\* get_price_change without the guard on a non-positive base price
GetPriceChange_NoBaseGuard(ph, market, symbol) ==
    LET history == Get(ph[market], symbol, None)
    IN  IF history = None \/ Len(history) < 2
        THEN None
        ELSE << <<history[Len(history)][2] - history[1][2], history[1][2]>>,
                history[1][2], history[Len(history)][2] >>

\* get_price_change dividing by the current price instead of the base price
GetPriceChange_DivByCurrent(ph, market, symbol) ==
    LET history == Get(ph[market], symbol, None)
    IN  IF history = None \/ Len(history) < 2 \/ history[1][2] <= 0
        THEN None
        ELSE << <<history[Len(history)][2] - history[1][2], history[Len(history)][2]>>,
                history[1][2], history[Len(history)][2] >>

\* get_price_change(market, symbol): None, or
\* <<change_pct, base_price, current_price>> with change_pct the fraction <<num, den>>
GetPriceChange(ph, market, symbol) ==
    LET history == Get(ph[market], symbol, None)     \* .get(symbol): no entry is created
    IN  IF history = None \/ Len(history) < 2
        THEN None
        ELSE LET base_price == history[1][2]
                 current_price == history[Len(history)][2]
             IN  IF base_price <= 0
                 THEN None
                 ELSE << <<current_price - base_price, base_price>>,
                         base_price, current_price >>

-----------------------------------------------------------------------------
(* Specification of one CacheManager's price windows *)

NoCall == [name |-> "init", args |-> <<>>, ret |-> None]

\* CacheManager.__init__: the fields other than the two configured ones
CacheManagerInit ==
    /\ cm_price_history = [m \in {"um"} |-> <<>>]
    /\ cm_last_alert_key_time = <<>>
    /\ cm_alert_streak_state = <<>>
    /\ cm_alert_last_message_id = <<>>
    /\ op = NoCall
    /\ last_sample = <<>>
    /\ admitted = <<>>
    /\ ningest = 0
    /\ ncalls = 0
    /\ streak_log = <<>>
    /\ cm_coingecko_cache = <<>>
    /\ cm_last_coingecko_update = 0

NoEvent == [symbol |-> <<>>, outcome |-> "none", direction |-> "None", count |-> 0,
            reply_to |-> None, message_id |-> None, mc_fdv |-> None, oi |-> None,
            oi_calls |-> <<>>, oi_mc_ratio_str |-> None]

\* main.py at import: the module globals, before the first cycle
MainInit ==
    /\ loop_now_ts = StartTime
    /\ tickers = <<>>
    /\ idx = 1
    /\ cycles = 0
    /\ price_history = [m \in {"um"} |-> <<>>]
    /\ last_alert_key_time = <<>>
    /\ alert_streak_state = <<>>
    /\ alert_last_message_id = <<>>
    /\ msg_seq = 0
    /\ event = NoEvent
    /\ alert_log = {}
    /\ upstream_calls = <<>>
    /\ cycle_trace = <<>>
    /\ delivery_hist = [calls |-> 0, by_key |-> <<>>]
    /\ main_pc = "running"
    /\ driver = [pc |-> "startup", in_loop |-> FALSE, loop_start |-> 0, slept |-> FALSE]
    /\ clock = StartTime
    /\ coingecko_cache = <<>>
    /\ last_coingecko_update = 0
    /\ upstream = <<>>
    /\ load_pc = "idle"
    /\ load_page = 1
    /\ load_data = <<>>
    /\ load_cache = <<>>
    /\ load_seen = <<>>
    /\ load_failed = FALSE
    /\ load_old = <<>>
    /\ last_success = 0
    /\ nrefresh = 0

InitWindow ==
    /\ window_seconds \in 1..MaxWindow
    /\ alert_reset_seconds \in {1}
    /\ min_interval \in {0}
    /\ CacheManagerInit
    /\ MainInit

update_price(symbol, timestamp, price) ==
    /\ cm_price_history' =
           UpdatePrice(cm_price_history, "um", symbol, timestamp, price, window_seconds)
    /\ op' = [name |-> "update_price", args |-> <<symbol, timestamp, price>>, ret |-> None]
    /\ last_sample' = Put(last_sample, symbol, <<timestamp, price>>)
    /\ ningest' = ningest + 1
    /\ UNCHANGED <<window_seconds, throttleVars, mainVars, refVars>>

get_price_change(symbol) ==
    /\ op' = [name |-> "get_price_change", args |-> <<symbol>>,
              ret |-> GetPriceChange(cm_price_history, "um", symbol)]
    /\ UNCHANGED <<windowVars, throttleVars, mainVars, refVars>>

WindowUpdatePrice ==
    /\ ningest < MaxIngest
    /\ \E s \in WindowSymbols, t \in Times, p \in WindowPrices : update_price(s, t, p)

WindowGetPriceChange == \E s \in WindowSymbols : get_price_change(s)

NextWindow == WindowUpdatePrice \/ WindowGetPriceChange

SpecWindow == InitWindow /\ [][NextWindow]_vars

-----------------------------------------------------------------------------
(* Claims on the price windows (SpecWindow) *)

Window(symbol) == Get(cm_price_history["um"], symbol, <<>>)

\* C1: every update_price call, whatever its timestamp, leaves a window in
\* which no two samples are more than window_seconds apart; it keeps each
\* sample that is at most window_seconds older than the ingested timestamp
\* (unless the capacity cap drops it) and retains no sample that is older.
C1_WindowSpanAfterIngest ==
    [][ op'.name = "update_price" =>
          LET old == Window(op'.args[1])
              new == cm_price_history'["um"][op'.args[1]]
              t   == op'.args[2]
          IN  /\ \A i, j \in 1..Len(new) : new[i][1] - new[j][1] <= window_seconds
              /\ \A i \in 1..Len(new) : t - new[i][1] <= window_seconds
              /\ Len(old) < Maxlen =>
                    \A i \in 1..Len(old) :
                       t - old[i][1] <= window_seconds =>
                          \E k \in 1..Len(new) : new[k] = old[i]
      ]_vars

\* C3: a get_price_change call returns None exactly when the window of the
\* instrument holds fewer than two samples (none at all for an instrument
\* never ingested) or the sample at the front of the window, the one retained
\* longest, has a price <= 0.
C3_NoDataExactly ==
    op.name = "get_price_change" =>
       LET h == Window(op.args[1])
       IN  (op.ret = None) <=> (Len(h) < 2 \/ h[1][2] <= 0)

\* a call on a window of two or more samples whose front price is not positive
C3_Witness ==
    /\ op.name = "get_price_change"
    /\ Len(Window(op.args[1])) >= 2
    /\ Window(op.args[1])[1][2] <= 0
    /\ op.ret = None

\* C4: a result of get_price_change carries the price at the front of the
\* window as window-start price, the price last ingested for the instrument
\* as current price, and the fraction (current - start) / start with a
\* positive denominator, so that its sign is the sign of current - start.
C4_ResultFields ==
    (op.name = "get_price_change" /\ op.ret # None) =>
       LET h == Window(op.args[1])
           start == op.ret[2]
           current == op.ret[3]
       IN  /\ start = h[1][2]
           /\ current = last_sample[op.args[1]][2]
           /\ op.ret[1] = <<current - start, start>>
           /\ op.ret[1][2] > 0

\* a result for a window whose front sample is not the sample before the last
\* one, with a falling price
C4_Witness ==
    /\ op.name = "get_price_change"
    /\ op.ret # None
    /\ Len(Window(op.args[1])) >= 3
    /\ op.ret[1][1] < 0

-----------------------------------------------------------------------------
(* CacheManager.should_alert / update_alert_streak / message ids *)

DirChars(direction) == IF direction = "UP" THEN <<"U", "P">> ELSE <<"D", "O", "W", "N">>

\* f"{base_asset}:{direction}"
AlertKey(base_asset, direction) == base_asset \o <<":">> \o DirChars(direction)

\* should_alert admitting only after more than min_interval
ShouldAlert_StrictInterval(lakt, base_asset, direction, now_ts, interval) ==
    LET last_ts == Get(lakt, AlertKey(base_asset, direction), 0)
    IN  IF now_ts - last_ts <= interval
        THEN [ret |-> FALSE, last_alert_key_time |-> lakt]
        ELSE [ret |-> TRUE,
              last_alert_key_time |-> Put(lakt, AlertKey(base_asset, direction), now_ts)]

\* should_alert recording the call time also when it rejects
ShouldAlert_RecordsRejects(lakt, base_asset, direction, now_ts, interval) ==
    LET last_ts == Get(lakt, AlertKey(base_asset, direction), 0)
    IN  [ret |-> ~(now_ts - last_ts < interval),
         last_alert_key_time |-> Put(lakt, AlertKey(base_asset, direction), now_ts)]

\* should_alert keeping the earliest admitted time instead of the latest
ShouldAlert_KeepsFirstTime(lakt, base_asset, direction, now_ts, interval) ==
    LET alert_key == AlertKey(base_asset, direction)
        last_ts == Get(lakt, alert_key, 0)
    IN  IF now_ts - last_ts < interval
        THEN [ret |-> FALSE, last_alert_key_time |-> lakt]
        ELSE [ret |-> TRUE,
              last_alert_key_time |->
                  IF alert_key \in DOMAIN lakt THEN lakt ELSE Put(lakt, alert_key, now_ts)]

\* should_alert(base_asset, direction, now_ts, min_interval): the returned
\* bool and the last_alert_key_time map after the call
ShouldAlert(lakt, base_asset, direction, now_ts, interval) ==
    LET alert_key == AlertKey(base_asset, direction)
        last_ts == Get(lakt, alert_key, 0)
    IN  IF now_ts - last_ts < interval
        THEN [ret |-> FALSE, last_alert_key_time |-> lakt]
        ELSE [ret |-> TRUE, last_alert_key_time |-> Put(lakt, alert_key, now_ts)]

\* AlertStreak(): the dataclass defaults
AlertStreak ==
    [last_dir |-> "None", up_count |-> 0, down_count |-> 0,
     last_up_ts |-> 0, last_down_ts |-> 0]

\* x or 0.0
OrZero(x) == IF x = 0 THEN 0 ELSE x

\* update_alert_streak resetting already at a gap equal to the timeout
UpdateAlertStreak_ResetAtTimeout(ass, base_asset, direction, now_ts, reset_seconds) ==
    LET state == Get(ass, base_asset, AlertStreak)
        up == direction = "UP"
        prev_ts == IF up THEN OrZero(state.last_up_ts) ELSE OrZero(state.last_down_ts)
        reset_needed == \/ state.last_dir # (IF up THEN "UP" ELSE "DOWN")
                        \/ prev_ts = 0
                        \/ now_ts - prev_ts >= reset_seconds
        count == IF reset_needed THEN 1
                 ELSE IF up THEN state.up_count + 1 ELSE state.down_count + 1
    IN  [ret |-> <<count, IF prev_ts = 0 THEN None ELSE <<now_ts - prev_ts, 60>> >>,
         alert_streak_state |->
             Put(ass, base_asset,
                 IF up THEN [state EXCEPT !.up_count = count, !.last_up_ts = now_ts,
                                          !.last_dir = "UP"]
                       ELSE [state EXCEPT !.down_count = count, !.last_down_ts = now_ts,
                                          !.last_dir = "DOWN"])]

\* update_alert_streak(base_asset, direction, now_ts): the returned
\* (count, minutes_since_prev) and the alert_streak_state map after the call;
\* minutes_since_prev is None or the fraction <<now_ts - prev_ts, 60>>
UpdateAlertStreak(ass, base_asset, direction, now_ts, reset_seconds) ==
    LET state == Get(ass, base_asset, AlertStreak)
    IN  IF direction = "UP"
        THEN LET prev_ts == OrZero(state.last_up_ts)
                 minutes_since_prev ==
                     IF prev_ts = 0 THEN None ELSE <<now_ts - prev_ts, 60>>
                 reset_needed == \/ state.last_dir # "UP"
                                 \/ prev_ts = 0
                                 \/ now_ts - prev_ts > reset_seconds
                 up_count == IF reset_needed THEN 1 ELSE state.up_count + 1
             IN  [ret |-> <<up_count, minutes_since_prev>>,
                  alert_streak_state |->
                      Put(ass, base_asset,
                          [state EXCEPT !.up_count = up_count,
                                        !.last_up_ts = now_ts,
                                        !.last_dir = "UP"])]
        ELSE LET prev_ts == OrZero(state.last_down_ts)
                 minutes_since_prev ==
                     IF prev_ts = 0 THEN None ELSE <<now_ts - prev_ts, 60>>
                 reset_needed == \/ state.last_dir # "DOWN"
                                 \/ prev_ts = 0
                                 \/ now_ts - prev_ts > reset_seconds
                 down_count == IF reset_needed THEN 1 ELSE state.down_count + 1
             IN  [ret |-> <<down_count, minutes_since_prev>>,
                  alert_streak_state |->
                      Put(ass, base_asset,
                          [state EXCEPT !.down_count = down_count,
                                        !.last_down_ts = now_ts,
                                        !.last_dir = "DOWN"])]

\* get_last_message_id(base_asset, direction): the stored id as <<id>>, or None
GetLastMessageId(almi, base_asset, direction) ==
    LET alert_key == AlertKey(base_asset, direction)
    IN  IF alert_key \in DOMAIN almi THEN <<almi[alert_key]>> ELSE None

\* set_last_message_id(base_asset, direction, message_id)
SetLastMessageId(almi, base_asset, direction, message_id) ==
    Put(almi, AlertKey(base_asset, direction), message_id)

-----------------------------------------------------------------------------
(* Specification of one CacheManager's throttle, streak and message-id state *)

InitThrottle ==
    /\ window_seconds \in {1}
    /\ alert_reset_seconds \in {1}
    /\ min_interval \in 0..MaxInterval
    /\ CacheManagerInit
    /\ MainInit

should_alert(base_asset, direction, now_ts) ==
    LET r == ShouldAlert(cm_last_alert_key_time, base_asset, direction, now_ts, min_interval)
        alert_key == AlertKey(base_asset, direction)
    IN  /\ cm_last_alert_key_time' = r.last_alert_key_time
        /\ op' = [name |-> "should_alert",
                  args |-> <<base_asset, direction, now_ts, min_interval>>, ret |-> r.ret]
        /\ admitted' = IF r.ret
                       THEN Put(admitted, alert_key,
                                Append(Get(admitted, alert_key, <<>>), now_ts))
                       ELSE admitted
        /\ ncalls' = ncalls + 1
        /\ UNCHANGED <<mainVars, refVars, windowVars, alert_reset_seconds, min_interval,
                       cm_alert_streak_state, cm_alert_last_message_id, streak_log>>

update_alert_streak(base_asset, direction, now_ts) ==
    LET r == UpdateAlertStreak(cm_alert_streak_state, base_asset, direction, now_ts,
                               alert_reset_seconds)
    IN  /\ cm_alert_streak_state' = r.alert_streak_state
        /\ op' = [name |-> "update_alert_streak",
                  args |-> <<base_asset, direction, now_ts>>, ret |-> r.ret]
        /\ ncalls' = ncalls + 1
        /\ streak_log' = Append(streak_log,
                                [base_asset |-> base_asset, direction |-> direction,
                                 now_ts |-> now_ts, count |-> r.ret[1],
                                 minutes_since_prev |-> r.ret[2]])
        /\ UNCHANGED <<mainVars, refVars, windowVars, alert_reset_seconds, min_interval,
                       cm_last_alert_key_time, cm_alert_last_message_id, admitted>>

set_last_message_id(base_asset, direction, message_id) ==
    /\ cm_alert_last_message_id' =
           SetLastMessageId(cm_alert_last_message_id, base_asset, direction, message_id)
    /\ op' = [name |-> "set_last_message_id",
              args |-> <<base_asset, direction, message_id>>, ret |-> None]
    /\ ncalls' = ncalls + 1
    /\ UNCHANGED <<mainVars, refVars, windowVars, alert_reset_seconds, min_interval, cm_last_alert_key_time,
                   cm_alert_streak_state, admitted, streak_log>>

ThrottleShouldAlert ==
    /\ ncalls < MaxThrottleCalls
    /\ \E b \in Bases, d \in Directions, t \in Times : should_alert(b, d, t)

ThrottleUpdateAlertStreak ==
    /\ ncalls < MaxThrottleCalls
    /\ \E b \in Bases, d \in Directions, t \in Times : update_alert_streak(b, d, t)

ThrottleSetLastMessageId ==
    /\ ncalls < MaxThrottleCalls
    /\ \E b \in Bases, d \in Directions, m \in MessageIds : set_last_message_id(b, d, m)

NextThrottle ==
    ThrottleShouldAlert \/ ThrottleUpdateAlertStreak \/ ThrottleSetLastMessageId

SpecThrottle == InitThrottle /\ [][NextThrottle]_vars

-----------------------------------------------------------------------------
(* Specification of one CacheManager's streak counters alone, explored deeper *)

InitStreak ==
    /\ window_seconds \in {1}
    /\ alert_reset_seconds \in 1..MaxReset
    /\ min_interval \in {0}
    /\ CacheManagerInit
    /\ MainInit

StreakUpdateAlertStreak ==
    /\ ncalls < MaxStreakCalls
    /\ \E b \in Bases, d \in Directions, t \in Times : update_alert_streak(b, d, t)

NextStreak == StreakUpdateAlertStreak

SpecStreak == InitStreak /\ [][NextStreak]_vars

-----------------------------------------------------------------------------
(* Claims on the throttle (SpecThrottle) *)

\* C5: a should_alert call for a key at time now returns TRUE exactly when
\* now minus the time stored for the key (0 when none is stored) is at least
\* min_interval, and after a call that returned TRUE the time stored for the
\* key is now.
C5_AdmitExactly ==
    [][ op'.name = "should_alert" =>
          LET alert_key == AlertKey(op'.args[1], op'.args[2])
              now == op'.args[3]
              last_alert_time == Get(cm_last_alert_key_time, alert_key, 0)
          IN  /\ op'.ret <=> (now - last_alert_time >= op'.args[4])
              /\ op'.ret => /\ alert_key \in DOMAIN cm_last_alert_key_time'
                            /\ cm_last_alert_key_time'[alert_key] = now
      ]_vars

\* a key admitted a second time, its stored time being the time of that call
C5_Witness ==
    /\ op.name = "should_alert"
    /\ op.ret
    /\ min_interval > 0
    /\ Len(admitted[AlertKey(op.args[1], op.args[2])]) >= 2
    /\ cm_last_alert_key_time[AlertKey(op.args[1], op.args[2])] = op.args[3]

\* C6: a should_alert call that returns FALSE leaves the stored time of every
\* key, every streak record and every stored message id as they were.
C6_RejectChangesNothing ==
    [][ (op'.name = "should_alert" /\ ~op'.ret) =>
          /\ cm_last_alert_key_time' = cm_last_alert_key_time
          /\ cm_alert_streak_state' = cm_alert_streak_state
          /\ cm_alert_last_message_id' = cm_alert_last_message_id
          /\ cm_price_history' = cm_price_history
      ]_vars

\* a rejected call for a key that has a stored time, with a streak record present
C6_Witness ==
    /\ op.name = "should_alert"
    /\ ~op.ret
    /\ AlertKey(op.args[1], op.args[2]) \in DOMAIN cm_last_alert_key_time
    /\ cm_alert_streak_state # <<>>

\* C7: whatever the order of the timestamps of the calls, any two calls for
\* one key that both returned TRUE have timestamps at least min_interval apart.
C7_AdmitsSpaced ==
    \A k \in DOMAIN admitted :
       \A i, j \in 1..Len(admitted[k]) :
          i < j => \/ admitted[k][j] - admitted[k][i] >= min_interval
                   \/ admitted[k][i] - admitted[k][j] >= min_interval

\* three admissions of one key under a positive min_interval
C7_Witness ==
    /\ min_interval > 0
    /\ \E k \in DOMAIN admitted : Len(admitted[k]) >= 3

-----------------------------------------------------------------------------
(* Claims on the streak counters (SpecStreak) *)

\* C10: update_alert_streak(base, direction, now) sets the counter of the
\* direction to 1 when the stored last_dir differs from the direction, or the
\* stored timestamp of the direction is 0, or now minus that timestamp is
\* greater than the reset timeout, and otherwise adds 1 to it; it stores
\* last_dir = direction and the timestamp of the direction = now, returns the
\* new counter, and leaves the counter and timestamp of the opposite
\* direction, and the records of the other base assets, unchanged.
C10_StreakUpdate ==
    [][ op'.name = "update_alert_streak" =>
          LET base == op'.args[1]
              direction == op'.args[2]
              now == op'.args[3]
              old == Get(cm_alert_streak_state, base, AlertStreak)
              new == cm_alert_streak_state'[base]
              up == direction = "UP"
              old_ts == IF up THEN old.last_up_ts ELSE old.last_down_ts
              old_count == IF up THEN old.up_count ELSE old.down_count
              new_ts == IF up THEN new.last_up_ts ELSE new.last_down_ts
              new_count == IF up THEN new.up_count ELSE new.down_count
              reset == \/ old.last_dir # direction
                       \/ old_ts = 0
                       \/ now - old_ts > alert_reset_seconds
          IN  /\ new_count = IF reset THEN 1 ELSE old_count + 1
              /\ new.last_dir = direction
              /\ new_ts = now
              /\ op'.ret[1] = new_count
              /\ IF up THEN /\ new.down_count = old.down_count
                            /\ new.last_down_ts = old.last_down_ts
                     ELSE /\ new.up_count = old.up_count
                          /\ new.last_up_ts = old.last_up_ts
              /\ \A b \in DOMAIN cm_alert_streak_state :
                    b # base => cm_alert_streak_state'[b] = cm_alert_streak_state[b]
      ]_vars

\* a call whose gap to the previous same-direction call equals the reset
\* timeout and which incremented the counter
C10_Witness ==
    /\ op.name = "update_alert_streak"
    /\ op.ret[1] >= 2
    /\ op.ret[2] # None
    /\ op.ret[2][1] = alert_reset_seconds

-----------------------------------------------------------------------------
(* main.py: helpers of the cycle driver *)

USDT == <<"U", "S", "D", "T">>
BUSD == <<"B", "U", "S", "D">>
FDUSD == <<"F", "D", "U", "S", "D">>
USDC == <<"U", "S", "D", "C">>
USD == <<"U", "S", "D">>
PERP == <<"_", "P", "E", "R", "P">>

\* for quote in ["USDT", "BUSD", "FDUSD", "USDC", "BTC", "USD"]
QuoteSuffixes == <<USDT, BUSD, FDUSD, USDC, BTC, USD>>

\* s.endswith(suffix)
EndsWith(s, suffix) ==
    /\ Len(s) >= Len(suffix)
    /\ SubSeq(s, Len(s) - Len(suffix) + 1, Len(s)) = suffix

\* s[:-n]
DropLast(s, n) == SubSeq(s, 1, Len(s) - n)

\* the for loop over the quote suffixes, from the i-th on: strip the first that matches
RECURSIVE StripQuote(_, _)
StripQuote(base, i) ==
    IF i > Len(QuoteSuffixes) THEN base
    ELSE IF EndsWith(base, QuoteSuffixes[i]) THEN DropLast(base, Len(QuoteSuffixes[i]))
    ELSE StripQuote(base, i + 1)

LowerCase == <<"a", "b", "c", "d", "e", "f", "g", "h", "i", "j", "k", "l", "m",
               "n", "o", "p", "q", "r", "s", "t", "u", "v", "w", "x", "y", "z">>
UpperCase == <<"A", "B", "C", "D", "E", "F", "G", "H", "I", "J", "K", "L", "M",
               "N", "O", "P", "Q", "R", "S", "T", "U", "V", "W", "X", "Y", "Z">>

\* s.upper()
Upper(s) ==
    [i \in 1..Len(s) |->
        IF \E k \in 1..Len(LowerCase) : LowerCase[k] = s[i]
        THEN UpperCase[CHOOSE k \in 1..Len(LowerCase) : LowerCase[k] = s[i]]
        ELSE s[i]]

\* extract_base_asset(binance_symbol)
extract_base_asset(binance_symbol) ==
    LET base == IF EndsWith(binance_symbol, PERP)
                THEN DropLast(binance_symbol, 5)
                ELSE binance_symbol
    IN  Upper(StripQuote(base, 1))

Digits == <<"0", "1", "2", "3", "4", "5", "6", "7", "8", "9">>

IsDigit(c) == \E k \in 1..Len(Digits) : Digits[k] = c

DigitValue(c) == (CHOOSE k \in 1..Len(Digits) : Digits[k] = c) - 1

RECURSIVE DigitsValue(_)
DigitsValue(s) ==
    IF s = <<>> THEN 0
    ELSE DigitsValue(SubSeq(s, 1, Len(s) - 1)) * 10 + DigitValue(s[Len(s)])

\* a float() that gives 0 for a text it cannot parse
ParseFloat_ZeroOnError(text) ==
    IF text # <<>> /\ \A i \in 1..Len(text) : IsDigit(text[i])
    THEN <<DigitsValue(text)>>
    ELSE <<0>>

\* float(text) for the texts of the model: a string of decimal digits gives
\* <<its value>>, any other text (the empty one included) raises, which is None
ParseFloat(text) ==
    IF text # <<>> /\ \A i \in 1..Len(text) : IsDigit(text[i])
    THEN <<DigitsValue(text)>>
    ELSE None

Abs(x) == IF x < 0 THEN -x ELSE x

\* PRICE_CHANGE_THRESHOLD = 0.03, as the fraction ThresholdNum / ThresholdDen
ThresholdNum == 3
ThresholdDen == 100

\* the threshold test that also skips a change equal to the threshold
BelowThreshold_SkipsBoundary(change_pct) ==
    Abs(change_pct[1]) * ThresholdDen <= ThresholdNum * change_pct[2]

\* abs(change_pct) < PRICE_CHANGE_THRESHOLD, change_pct the fraction <<num, den>>, den > 0
BelowThreshold(change_pct) ==
    Abs(change_pct[1]) * ThresholdDen < ThresholdNum * change_pct[2]

\* an empty BLACKLIST_BASES
BLOCKED_BASES_Empty == {}

\* BLOCKED_BASES, default "BTTC"
BLOCKED_BASES == {<<"B", "T", "T", "C">>}

\* the dict update_alert_streak starts from for a base asset it has not seen
MainStreakDefault ==
    [last_dir |-> "None", up_count |-> 0, down_count |-> 0,
     last_up_ts |-> 0, last_down_ts |-> 0]

\* update_alert_streak(base_asset, direction_flag, now_ts) of main.py: the
\* returned (count, minutes_since_prev) and alert_streak_state after the call
MainUpdateAlertStreak(ass, base_asset, direction_flag, now_ts, reset_seconds) ==
    LET state == Get(ass, base_asset, MainStreakDefault)
    IN  IF direction_flag = "UP"
        THEN LET prev_ts == OrZero(state.last_up_ts)
                 minutes_since_prev ==
                     IF prev_ts > 0 THEN <<now_ts - prev_ts, 60>> ELSE None
                 reset_needed == \/ state.last_dir # "UP"
                                 \/ prev_ts = 0
                                 \/ now_ts - prev_ts > reset_seconds
                 up_count == IF reset_needed THEN 1 ELSE state.up_count + 1
             IN  [ret |-> <<up_count, minutes_since_prev>>,
                  alert_streak_state |->
                      Put(ass, base_asset,
                          [state EXCEPT !.up_count = up_count,
                                        !.last_up_ts = now_ts,
                                        !.last_dir = "UP"])]
        ELSE LET prev_ts == OrZero(state.last_down_ts)
                 minutes_since_prev ==
                     IF prev_ts > 0 THEN <<now_ts - prev_ts, 60>> ELSE None
                 reset_needed == \/ state.last_dir # "DOWN"
                                 \/ prev_ts = 0
                                 \/ now_ts - prev_ts > reset_seconds
                 down_count == IF reset_needed THEN 1 ELSE state.down_count + 1
             IN  [ret |-> <<down_count, minutes_since_prev>>,
                  alert_streak_state |->
                      Put(ass, base_asset,
                          [state EXCEPT !.down_count = down_count,
                                        !.last_down_ts = now_ts,
                                        !.last_dir = "DOWN"])]

\* the alert key keyed by the instrument symbol itself
MainAlertKey_BySymbol(symbol, direction_flag) == AlertKey(symbol, direction_flag)

\* base_asset = extract_base_asset(symbol); alert_key = f"{base_asset}:{direction_flag}"
MainAlertKey(symbol, direction_flag) ==
    AlertKey(extract_base_asset(symbol), direction_flag)

\* the streak updated before the throttle check, so also for a throttled event
ThrottleThenStreak_StreakFirst(lakt, ass, alert_key, base_asset, direction_flag, now_ts, interval, reset_seconds) ==
    LET r == MainUpdateAlertStreak(ass, base_asset, direction_flag, now_ts, reset_seconds)
    IN  IF now_ts - Get(lakt, alert_key, 0) < interval
        THEN [admit |-> FALSE, last_alert_key_time |-> lakt,
              alert_streak_state |-> r.alert_streak_state, count |-> 0, minutes |-> None]
        ELSE [admit |-> TRUE, last_alert_key_time |-> Put(lakt, alert_key, now_ts),
              alert_streak_state |-> r.alert_streak_state,
              count |-> r.ret[1], minutes |-> r.ret[2]]

\* the throttle check of the loop body, then the streak accounting
ThrottleThenStreak(lakt, ass, alert_key, base_asset, direction_flag, now_ts, interval, reset_seconds) ==
    LET last_ts_key == Get(lakt, alert_key, 0)
    IN  IF now_ts - last_ts_key < interval
        THEN [admit |-> FALSE, last_alert_key_time |-> lakt,
              alert_streak_state |-> ass, count |-> 0, minutes |-> None]
        ELSE LET r == MainUpdateAlertStreak(ass, base_asset, direction_flag, now_ts,
                                            reset_seconds)
             IN  [admit |-> TRUE, last_alert_key_time |-> Put(lakt, alert_key, now_ts),
                  alert_streak_state |-> r.alert_streak_state,
                  count |-> r.ret[1], minutes |-> r.ret[2]]

-----------------------------------------------------------------------------
(* Formatting, the market-cap lookup and the open-interest lookup *)

NA == "N/A"

\* human_readable_number(x) for an optional whole number x below 10^8 in size
\* (the B and T branches lie beyond the numbers of the model): "N/A" for None,
\* else <<digits, decimals, suffix>>, the value scaled by the suffix and rounded
\* to the given number of decimals, kept as a whole number of the last decimal
HumanReadableNumber(x) ==
    IF x = None THEN <<NA>>
    ELSE LET n == x[1]
             abs_x == Abs(n)
             Tenths(unit) == IF n >= 0 THEN (n * 10 + unit \div 2) \div unit
                                       ELSE -((abs_x * 10 + unit \div 2) \div unit)
         IN  IF abs_x >= 1000000 THEN <<Tenths(1000000), 1, "M">>
             ELSE IF abs_x >= 1000 THEN <<Tenths(1000), 1, "K">>
             ELSE <<n * 100, 2, "">>

\* the lookup keyed by the instrument symbol itself, not by its base asset
GetMcFdv_BySymbol(cache, binance_symbol) ==
    IF binance_symbol \notin DOMAIN cache
    THEN [mc_str |-> <<NA>>, fdv_str |-> <<NA>>, mc_val |-> None, fdv_val |-> None]
    ELSE [mc_str |-> HumanReadableNumber(cache[binance_symbol].mc),
          fdv_str |-> HumanReadableNumber(cache[binance_symbol].fdv),
          mc_val |-> cache[binance_symbol].mc, fdv_val |-> cache[binance_symbol].fdv]

\* get_mc_fdv(binance_symbol) / get_mc_fdv_from_symbol(binance_symbol): the
\* returned (mc_str, fdv_str, mc_val, fdv_val)
GetMcFdv(cache, binance_symbol) ==
    LET base == extract_base_asset(binance_symbol)
    IN  IF base \notin DOMAIN cache
        THEN [mc_str |-> <<NA>>, fdv_str |-> <<NA>>, mc_val |-> None, fdv_val |-> None]
        ELSE LET info == cache[base]
             IN  [mc_str |-> HumanReadableNumber(info.mc),
                  fdv_str |-> HumanReadableNumber(info.fdv),
                  mc_val |-> info.mc, fdv_val |-> info.fdv]

\* what one request to openInterestHist can do: raise (network error, HTTP
\* status, malformed body), or give the list hist of sumOpenInterestValue figures
Raises == [raises |-> TRUE, hist |-> <<>>]
Gives(hist) == [raises |-> FALSE, hist |-> hist]

Unavailable == [oi_str |-> <<NA>>, oi_change_str |-> <<NA>>, oi_value_usd |-> None]

\* the try block of fetch_open_interest_stats for a response that did not raise;
\* the change is the fraction <<current - old, old>>, formatted as a percentage
OpenInterestOf(hist) ==
    IF hist = <<>> THEN Unavailable
    ELSE LET current_oi_value == hist[Len(hist)]
             old_oi_value == hist[1]
             change_str == IF Len(hist) >= 2 /\ old_oi_value > 0
                           THEN <<current_oi_value - old_oi_value, old_oi_value, "%">>
                           ELSE <<NA>>
         IN  [oi_str |-> <<"$">> \o HumanReadableNumber(<<current_oi_value>>),
              oi_change_str |-> change_str,
              oi_value_usd |-> <<current_oi_value>>]

\* fetch_open_interest_stats that retries with retry still set
RECURSIVE FetchOpenInterestStats_RetryAgain(_, _, _)
FetchOpenInterestStats_RetryAgain(attempts, k, retry) ==
    IF k > Len(attempts) THEN [ret |-> Unavailable, calls |-> SubSeq(attempts, 1, k - 1)]
    ELSE IF attempts[k].raises
    THEN IF retry THEN FetchOpenInterestStats_RetryAgain(attempts, k + 1, TRUE)
         ELSE [ret |-> Unavailable, calls |-> SubSeq(attempts, 1, k)]
    ELSE [ret |-> OpenInterestOf(attempts[k].hist), calls |-> SubSeq(attempts, 1, k)]

\* fetch_open_interest_stats(symbol, market, retry): attempts[k] is what the
\* k-th request to the upstream does if it is made, k the request this call is
\* about to make; the returned (oi_str, oi_change_str, oi_value_usd) and the
\* requests made
RECURSIVE FetchOpenInterestStats(_, _, _)
FetchOpenInterestStats(attempts, k, retry) ==
    IF attempts[k].raises
    THEN IF retry THEN FetchOpenInterestStats(attempts, k + 1, FALSE)
         ELSE [ret |-> Unavailable, calls |-> SubSeq(attempts, 1, k)]
    ELSE [ret |-> OpenInterestOf(attempts[k].hist), calls |-> SubSeq(attempts, 1, k)]

\* reply_to_id of an alert: the identifier stored for its key, when the alert
\* continues a streak; this one threads whatever the streak count is
ReplyToId_AnyCount(alert_count, prev_msg_id) == prev_msg_id

\* reply_to_id = prev_msg_id if (alert_count > 1 and prev_msg_id is not None) else None
ReplyToId(alert_count, prev_msg_id) ==
    IF alert_count > 1 /\ prev_msg_id # None THEN prev_msg_id ELSE None

\* a failed send that also forgets that the event passed the throttle
RecordDelivery_ForgetsAdmission(g, alert_key, message_id) ==
    IF message_id # None
    THEN [g EXCEPT !.alert_last_message_id = Put(@, alert_key, message_id[1])]
    ELSE [g EXCEPT !.last_alert_key_time = [k \in DOMAIN @ \ {alert_key} |-> @[k]]]

\* after the send: "if message_id is not None: alert_last_message_id[alert_key] =
\* message_id"; g the globals before the send, message_id what the send returned
RecordDelivery(g, alert_key, message_id) ==
    IF message_id # None
    THEN [g EXCEPT !.alert_last_message_id = Put(@, alert_key, message_id[1])]
    ELSE g

\* delivery_hist after a send call for (base asset of symbol, direction) at
\* time now that returned ret
Delivered(h, symbol, direction, now, ret) ==
    LET key == AlertKey(extract_base_asset(symbol), direction)
        last_ok == IF ret # None THEN ret
                   ELSE IF key \in DOMAIN h.by_key THEN h.by_key[key].last_ok
                   ELSE None
    IN  [calls |-> h.calls + 1,
         by_key |-> Put(h.by_key, key, [time |-> now, ret |-> ret, last_ok |-> last_ok])]

\* the OI / market-cap ratio of an alert (main.py lines 585-592; the property
\* AlertInfo.oi_mc_ratio_str has the same test): the fraction
\* <<oi_value_usd, mc_raw>> formatted as a percentage, or "N/A"
OiMcRatioStr(oi_value_usd, mc_raw) ==
    IF /\ oi_value_usd # None
       /\ oi_value_usd[1] > 0
       /\ mc_raw # None
       /\ mc_raw[1] > 0
    THEN <<oi_value_usd[1], mc_raw[1], "%">>
    ELSE <<NA>>

-----------------------------------------------------------------------------
(* main.py: update_and_check_market, one loop iteration at a time *)

\* the module globals the loop body reads and writes, as one record
Globals ==
    [price_history |-> price_history,
     last_alert_key_time |-> last_alert_key_time,
     alert_streak_state |-> alert_streak_state,
     alert_last_message_id |-> alert_last_message_id]

\* The body of the for loop of update_and_check_market for one item: the
\* globals after it and what it did.  sent_id is what the Telegram send
\* returned, <<message_id>> or None, attempts what the requests of the
\* open-interest lookup do; both are used only when an alert is sent.
LoopBody(g, market, item, now, sent_id, attempts) ==
    LET symbol == item.symbol
        base_asset == extract_base_asset(symbol)
        parsed == ParseFloat(item.lastPrice)
        last_price == parsed[1]
        history == EvictOld(DequeAppend(Get(g.price_history[market], symbol, <<>>),
                                        <<now, last_price>>),
                            now, window_seconds)
        g1 == [g EXCEPT !.price_history[market] = Put(@, symbol, history)]
        base_price == history[1][2]
        change_pct == <<last_price - base_price, base_price>>
        direction_flag == IF change_pct[1] > 0 THEN "UP" ELSE "DOWN"
        alert_key == MainAlertKey(symbol, direction_flag)
        t == ThrottleThenStreak(g.last_alert_key_time, g.alert_streak_state, alert_key,
                                base_asset, direction_flag, now, min_interval,
                                alert_reset_seconds)
        g2 == [g1 EXCEPT !.last_alert_key_time = t.last_alert_key_time,
                         !.alert_streak_state = t.alert_streak_state]
        prev_msg_id == IF alert_key \in DOMAIN g.alert_last_message_id
                       THEN <<g.alert_last_message_id[alert_key]>>
                       ELSE None
        reply_to_id == ReplyToId(t.count, prev_msg_id)
        mc_fdv == GetMcFdv(coingecko_cache, symbol)
        oi == FetchOpenInterestStats(attempts, 1, TRUE)
        g3 == RecordDelivery(g2, alert_key, sent_id)
        Skipped(gs, outcome) ==
            [g |-> gs, event |-> [NoEvent EXCEPT !.symbol = symbol, !.outcome = outcome]]
    IN  IF base_asset \in BLOCKED_BASES THEN Skipped(g, "blocked")
        ELSE IF parsed = None THEN Skipped(g, "bad_price")
        ELSE IF Len(history) < 2 THEN Skipped(g1, "short")
        ELSE IF base_price <= 0 THEN Skipped(g1, "bad_base")
        ELSE IF BelowThreshold(change_pct) THEN Skipped(g1, "below")
        ELSE IF ~t.admit
             THEN [g |-> g2,
                   event |-> [NoEvent EXCEPT !.symbol = symbol, !.outcome = "throttled",
                                             !.direction = direction_flag]]
             ELSE [g |-> g3,
                   event |-> [symbol |-> symbol, outcome |-> "alerted",
                              direction |-> direction_flag, count |-> t.count,
                              reply_to |-> reply_to_id, message_id |-> sent_id,
                              mc_fdv |-> <<mc_fdv>>, oi |-> <<oi.ret>>,
                              oi_calls |-> oi.calls,
                              oi_mc_ratio_str |->
                                  <<OiMcRatioStr(oi.ret.oi_value_usd, mc_fdv.mc_val)>>]]

\* the start of an update_and_check_market call: now_ts = time.time(), dt ticks
\* after the previous call, with the batch the ticker fetch returned
StartCycle(dt, batch) ==
    /\ main_pc = "running"
    /\ idx > Len(tickers)
    /\ loop_now_ts' = loop_now_ts + dt
    /\ tickers' = batch
    /\ idx' = 1
    /\ cycles' = cycles + 1
    /\ event' = NoEvent
    /\ cycle_trace' = <<>>
    /\ UNCHANGED <<price_history, last_alert_key_time, alert_streak_state,
                   alert_last_message_id, msg_seq, alert_log, upstream_calls,
                   delivery_hist, main_pc>>
    /\ driver' = [driver EXCEPT !.pc = "work", !.slept = FALSE]
    /\ UNCHANGED <<op, windowVars, throttleVars, refVars>>

\* fetch_futures_24h_tickers("um") raises (requests.get, raise_for_status or
\* resp.json()), dt ticks after the previous cycle.  The call of main() before
\* its loop (line 665, the first cycle) is not inside a try, so the exception
\* ends main(); the call inside the loop (lines 719-725) is, so the cycle is
\* over without a call of update_and_check_market.
FetchRaises(dt) ==
    /\ main_pc = "running"
    /\ idx > Len(tickers)
    /\ IF cycles = 0
       THEN /\ main_pc' = "crashed"
            /\ UNCHANGED <<loop_now_ts, tickers, idx, cycles, event, cycle_trace, driver>>
       ELSE /\ loop_now_ts' = loop_now_ts + dt
            /\ tickers' = <<>>
            /\ idx' = 1
            /\ cycles' = cycles + 1
            /\ event' = NoEvent
            /\ cycle_trace' = <<>>
            /\ driver' = [driver EXCEPT !.pc = "work", !.slept = FALSE]
            /\ UNCHANGED main_pc
    /\ UNCHANGED <<price_history, last_alert_key_time, alert_streak_state,
                   alert_last_message_id, msg_seq, alert_log, upstream_calls,
                   delivery_hist>>
    /\ UNCHANGED <<op, windowVars, throttleVars, refVars>>

\* an entry of cycle_trace
Did(what, symbol, oi, calls) == [what |-> what, symbol |-> symbol, oi |-> oi, calls |-> calls]

\* the loop body with an open-interest lookup that lets its last failure
\* escape: nothing is delivered for the item and the cycle ends there
ProcessItem_AbortOnFailure(sent, attempts) ==
    /\ idx <= Len(tickers)
    /\ \E r \in {LoopBody(Globals, "um", tickers[idx], loop_now_ts,
                           IF sent THEN <<msg_seq + 1>> ELSE None, attempts)} :
       LET alerted == r.event.outcome = "alerted"
           aborted == alerted /\ r.event.oi_calls[Len(r.event.oi_calls)].raises
       IN  /\ price_history' = r.g.price_history
           /\ last_alert_key_time' = r.g.last_alert_key_time
           /\ alert_streak_state' = r.g.alert_streak_state
           /\ alert_last_message_id' = r.g.alert_last_message_id
           /\ event' = r.event
           /\ msg_seq' = IF alerted /\ sent /\ ~aborted THEN msg_seq + 1 ELSE msg_seq
           /\ alert_log' = IF alerted
                           THEN alert_log \cup
                                   {<<r.event.symbol, r.event.direction, loop_now_ts>>}
                           ELSE alert_log
           /\ upstream_calls' = IF alerted THEN r.event.oi_calls ELSE upstream_calls
           /\ delivery_hist' =
                  IF alerted
                  THEN Delivered(delivery_hist, r.event.symbol, r.event.direction,
                                 loop_now_ts, r.event.message_id)
                  ELSE delivery_hist
           /\ cycle_trace' =
                  IF aborted
                  THEN cycle_trace \o
                          <<Did("admit", r.event.symbol, None, <<>>),
                            Did("lookup_start", r.event.symbol, None, <<>>),
                            Did("lookup_end", r.event.symbol, None, r.event.oi_calls)>>
                  ELSE IF alerted
                  THEN cycle_trace \o
                          <<Did("admit", r.event.symbol, None, <<>>),
                            Did("lookup_start", r.event.symbol, None, <<>>),
                            Did("lookup_end", r.event.symbol, None, r.event.oi_calls),
                            Did("deliver", r.event.symbol, r.event.oi, <<>>)>>
                  ELSE cycle_trace
           /\ idx' = IF aborted THEN Len(tickers) + 1 ELSE idx + 1
    /\ UNCHANGED <<loop_now_ts, tickers, cycles, main_pc, driver>>
    /\ UNCHANGED <<op, windowVars, throttleVars, refVars>>

\* one iteration of the for loop; sent tells whether Telegram accepts the
\* message, attempts what the requests of the open-interest lookup do.  An
\* iteration that passes the throttle check does the rest of the body in
\* program order: streak, market-cap and open-interest lookup, send.
ProcessItem(sent, attempts) ==
    /\ idx <= Len(tickers)
    /\ \E r \in {LoopBody(Globals, "um", tickers[idx], loop_now_ts,
                           IF sent THEN <<msg_seq + 1>> ELSE None, attempts)} :
       LET alerted == r.event.outcome = "alerted"
       IN  /\ price_history' = r.g.price_history
           /\ last_alert_key_time' = r.g.last_alert_key_time
           /\ alert_streak_state' = r.g.alert_streak_state
           /\ alert_last_message_id' = r.g.alert_last_message_id
           /\ event' = r.event
           /\ msg_seq' = IF alerted /\ sent THEN msg_seq + 1 ELSE msg_seq
           /\ alert_log' = IF alerted
                           THEN alert_log \cup
                                   {<<r.event.symbol, r.event.direction, loop_now_ts>>}
                           ELSE alert_log
           /\ upstream_calls' = IF alerted THEN r.event.oi_calls ELSE upstream_calls
           /\ delivery_hist' =
                  IF alerted
                  THEN Delivered(delivery_hist, r.event.symbol, r.event.direction,
                                 loop_now_ts, r.event.message_id)
                  ELSE delivery_hist
           /\ cycle_trace' =
                  IF alerted
                  THEN cycle_trace \o
                          <<Did("admit", r.event.symbol, None, <<>>),
                            Did("lookup_start", r.event.symbol, None, <<>>),
                            Did("lookup_end", r.event.symbol, None, r.event.oi_calls),
                            Did("deliver", r.event.symbol, r.event.oi, <<>>)>>
                  ELSE cycle_trace
    /\ idx' = idx + 1
    /\ UNCHANGED <<loop_now_ts, tickers, cycles, main_pc, driver>>
    /\ UNCHANGED <<op, windowVars, throttleVars, refVars>>

-----------------------------------------------------------------------------
(* Specification of the cycle driver of main.py *)

\* lastPrice texts of the tickers: "97" and "100"
PriceTexts == {<<"9", "7">>, <<"1", "0", "0">>}

\* the batches a ticker fetch returns: the two BTC instruments quote the same
\* price, ETH moves on its own
Batches ==
    {<<[symbol |-> BTCUSDT, lastPrice |-> btc],
       [symbol |-> BTCUSDC, lastPrice |-> btc],
       [symbol |-> ETHUSDT, lastPrice |-> eth]>> : btc \in PriceTexts, eth \in PriceTexts}

InitMain ==
    /\ window_seconds \in 1..MaxWindow
    /\ alert_reset_seconds = MaxReset
    /\ min_interval \in 1..MaxInterval
    /\ CacheManagerInit
    /\ MainInit

MainStartCycle ==
    /\ cycles < MaxCycles
    /\ \E dt \in 1..MaxDt, batch \in Batches : StartCycle(dt, batch)

\* the open-interest lookups of this specification succeed at once
MainAttempts == <<Gives(<<100, 103>>), Raises>>

MainProcessItem == \E sent \in BOOLEAN : ProcessItem(sent, MainAttempts)

NextMain == MainStartCycle \/ MainProcessItem

SpecMain == InitMain /\ [][NextMain]_vars

-----------------------------------------------------------------------------
(* Claims about the throttle and the streak inside a cycle *)

\* an admission recorded in alert_log that still blocks (base_asset, direction)
\* at time now: same base asset, same direction, less than min_interval ago
BlockingAdmission(e, base_asset, direction, now) ==
    /\ extract_base_asset(e[1]) = base_asset
    /\ e[2] = direction
    /\ now - e[3] < min_interval

\* C8: the throttle is keyed by (base asset, direction), not by instrument.  An
\* event that reaches the throttle check is rejected exactly when an event of
\* some instrument with the same base asset and the same direction was admitted
\* less than min_interval ago; admissions of the opposite direction or of
\* another base asset have no effect on it.
C8_ThrottleKeyedByBaseAndDirection ==
    [][(idx' = idx + 1 /\ event'.outcome \in {"throttled", "alerted"}) =>
          (event'.outcome = "throttled" <=>
              \E e \in alert_log :
                  BlockingAdmission(e, extract_base_asset(event'.symbol),
                                    event'.direction, loop_now_ts))]_vars

\* an event of BTCUSDC is rejected because of an admission of BTCUSDT, with no
\* admission of BTCUSDC itself on record, while ETHUSDT, of another base asset,
\* has been admitted
C8_Witness ==
    /\ event.outcome = "throttled"
    /\ event.symbol = BTCUSDC
    /\ \A e \in alert_log : e[1] # BTCUSDC
    /\ \E e \in alert_log : /\ e[1] = BTCUSDT
                            /\ e[2] = event.direction
                            /\ loop_now_ts - e[3] < min_interval
    /\ \E e \in alert_log : e[1] = ETHUSDT

\* C9: the throttle check comes before the streak accounting.  The streak state
\* changes in a step exactly when that step admits an event (the throttle has
\* recorded the current time for the event's key); an event that is below the
\* threshold, throttled or skipped leaves every streak record as it was.
C9_StreakOnlyAfterAdmit ==
    [][/\ (alert_streak_state' # alert_streak_state) <=>
              (idx' = idx + 1 /\ event'.outcome = "alerted")
       /\ (idx' = idx + 1 /\ event'.outcome = "alerted") =>
              /\ MainAlertKey(event'.symbol, event'.direction)
                     \in DOMAIN last_alert_key_time'
              /\ last_alert_key_time'[MainAlertKey(event'.symbol, event'.direction)]
                     = loop_now_ts
              /\ extract_base_asset(event'.symbol) \in DOMAIN alert_streak_state'
              /\ alert_streak_state'[extract_base_asset(event'.symbol)].last_dir
                     = event'.direction]_vars

\* a throttled event of a base asset whose streak was started in an earlier cycle
C9_Witness ==
    /\ event.outcome = "throttled"
    /\ extract_base_asset(event.symbol) \in DOMAIN alert_streak_state
    /\ LET state == alert_streak_state[extract_base_asset(event.symbol)]
       IN  /\ state.last_dir = event.direction
           /\ state.up_count + state.down_count >= 1
           /\ state.last_up_ts < loop_now_ts
           /\ state.last_down_ts < loop_now_ts

-----------------------------------------------------------------------------
(* Specification of the capacity cap: a window long enough to hold more than
   Maxlen samples, one instrument at a steady price, one sample per tick, fed
   both to the cycle driver of main.py and to CacheManager.update_price *)

CapWindow == 200
CapCycles == 101

CapBatch == <<[symbol |-> BTCUSDT, lastPrice |-> <<"1", "0", "0">>]>>

InitCap ==
    /\ window_seconds = CapWindow
    /\ alert_reset_seconds = 1
    /\ min_interval = 1
    /\ CacheManagerInit
    /\ MainInit

CapStartCycle ==
    /\ cycles < CapCycles
    /\ StartCycle(1, CapBatch)

CapProcessItem == \E sent \in BOOLEAN : ProcessItem(sent, MainAttempts)

CapUpdatePrice ==
    /\ ningest < CapCycles
    /\ update_price(BTCUSDT, StartTime + ningest, 1)

NextCap == CapStartCycle \/ CapProcessItem \/ CapUpdatePrice

SpecCap == InitCap /\ [][NextCap]_vars

\* C2: no window, of CacheManager or of the cycle driver of main.py, ever holds
\* more than the capacity cap of 100 samples.
C2_WindowWithinCap ==
    /\ \A s \in DOMAIN cm_price_history["um"] : Len(cm_price_history["um"][s]) <= Maxlen
    /\ \A s \in DOMAIN price_history["um"] : Len(price_history["um"][s]) <= Maxlen

\* the part of C2 that CacheManager keeps: its windows stay within the cap, and
\* past the cap the window is the newest Maxlen samples, the oldest dropped
CacheManagerWithinCap ==
    \A s \in DOMAIN cm_price_history["um"] :
        LET w == cm_price_history["um"][s]
        IN  /\ Len(w) <= Maxlen
            /\ ningest > Maxlen =>
                  /\ Len(w) = Maxlen
                  /\ w[1][1] = StartTime + ningest - Maxlen
                  /\ w[Len(w)][1] = StartTime + ningest - 1

-----------------------------------------------------------------------------
(* Claims on sequences of streak events (SpecStreak) *)

\* the positions before i of streak_log that hold an event of the same base asset
EarlierOfBase(i) ==
    {j \in 1..(i - 1) : streak_log[j].base_asset = streak_log[i].base_asset}

\* the positions before i that hold an event of the same base asset and direction
EarlierOfDirection(i) ==
    {j \in EarlierOfBase(i) : streak_log[j].direction = streak_log[i].direction}

\* the largest member of a non-empty set of positions
Latest(J) == CHOOSE j \in J : \A k \in J : k <= j

\* C11: in every sequence of streak events with non-negative timestamps, the
\* first event of a base asset returns 1; an event of the same direction as the
\* previous event of its base asset, less than the reset timeout after it,
\* returns the previous count plus 1; an event that follows an event of the
\* opposite direction, or a gap greater than the timeout, returns 1.
C11_StreakCounts ==
    \A i \in 1..Len(streak_log) :
        LET e == streak_log[i]
        IN  IF EarlierOfBase(i) = {} THEN e.count = 1
            ELSE LET prev == streak_log[Latest(EarlierOfBase(i))]
                     gap == e.now_ts - prev.now_ts
                 IN  /\ prev.direction # e.direction => e.count = 1
                     /\ (prev.direction = e.direction /\ gap > alert_reset_seconds)
                            => e.count = 1
                     /\ (prev.direction = e.direction /\ gap >= 0
                         /\ gap < alert_reset_seconds) => e.count = prev.count + 1

\* C13: update_alert_streak returns minutes_since_prev = None exactly when the
\* base asset has no earlier event of the same direction, and otherwise the
\* time since the latest earlier event of that direction, divided by 60.
C13_MinutesSincePrev ==
    \A i \in 1..Len(streak_log) :
        LET e == streak_log[i]
            J == EarlierOfDirection(i)
        IN  IF J = {} THEN e.minutes_since_prev = None
            ELSE e.minutes_since_prev = <<e.now_ts - streak_log[Latest(J)].now_ts, 60>>

-----------------------------------------------------------------------------
(* Specification of the streak scenario: one CacheManager with the default
   reset timeout and calls for BTC at the times of the scenario *)

\* ALERT_RESET_SECONDS, default "1800"
ScenarioReset == 1800
ScenarioTimes == {0, 300, 400, 500}
ScenarioCalls == 4

Scenario == <<[direction |-> "UP", now_ts |-> 0], [direction |-> "UP", now_ts |-> 300],
              [direction |-> "DOWN", now_ts |-> 400], [direction |-> "UP", now_ts |-> 500]>>
ScenarioCounts == <<1, 2, 1, 1>>

InitScenario ==
    /\ window_seconds \in {1}
    /\ alert_reset_seconds = ScenarioReset
    /\ min_interval \in {0}
    /\ CacheManagerInit
    /\ MainInit

ScenarioUpdateAlertStreak ==
    /\ ncalls < ScenarioCalls
    /\ \E d \in Directions, t \in ScenarioTimes : update_alert_streak(BTC, d, t)

NextScenario == ScenarioUpdateAlertStreak

SpecScenario == InitScenario /\ [][NextScenario]_vars

\* the calls made so far are the first calls of the scenario, in its order
FollowsScenario ==
    /\ Len(streak_log) <= Len(Scenario)
    /\ \A i \in 1..Len(streak_log) :
           /\ streak_log[i].base_asset = BTC
           /\ streak_log[i].direction = Scenario[i].direction
           /\ streak_log[i].now_ts = Scenario[i].now_ts

\* C12: with the reset timeout 1800 and a fresh state, the calls UP at 0, UP at
\* 300, DOWN at 400, UP at 500 for BTC return the counts 1, 2, 1, 1, and after
\* the third call last_dir is DOWN.
C12_ScenarioCounts ==
    FollowsScenario =>
        /\ \A i \in 1..Len(streak_log) : streak_log[i].count = ScenarioCounts[i]
        /\ Len(streak_log) = 3 => cm_alert_streak_state[BTC].last_dir = "DOWN"

-----------------------------------------------------------------------------
(* The CoinGecko reference table: load_coingecko_marketcaps and
   get_mc_fdv_from_symbol of main.py, update_coingecko_cache,
   should_refresh_coingecko and get_mc_fdv of CacheManager.
   An optional number is None or <<n>>. *)

\* (mc or 0)
McOrZero(mc) == IF mc = None THEN 0 ELSE mc[1]

\* the dedup that keeps a later coin whenever its cap is not smaller
DedupCoin_KeepsLast(cache, coin) ==
    LET symbol == Upper(coin.symbol)
    IN  IF \/ symbol \notin DOMAIN cache
           \/ McOrZero(coin.market_cap) >= McOrZero(cache[symbol].mc)
        THEN Put(cache, symbol, [mc |-> coin.market_cap,
                                 fdv |-> coin.fully_diluted_valuation])
        ELSE cache

\* the body of "for coin in data": cache after one coin
DedupCoin(cache, coin) ==
    LET symbol == Upper(coin.symbol)
        mc == coin.market_cap
        fdv == coin.fully_diluted_valuation
    IN  IF \/ symbol \notin DOMAIN cache
           \/ McOrZero(mc) > McOrZero(cache[symbol].mc)
        THEN Put(cache, symbol, [mc |-> mc, fdv |-> fdv])
        ELSE cache

\* the page limit of load_coingecko_marketcaps
MaxPages == 10

\* time.time() advances
Tick ==
    /\ clock' = clock + 1
    /\ UNCHANGED <<cm_coingecko_cache, cm_last_coingecko_update, coingecko_cache,
                   last_coingecko_update, upstream, load_pc, load_page, load_data,
                   load_cache, load_seen, load_failed, load_old, last_success, nrefresh>>
    /\ UNCHANGED <<op, windowVars, throttleVars, mainVars>>

\* main() calls load_coingecko_marketcaps: at start-up, and in the loop when
\* time.time() - last_coingecko_update > COINGECKO_REFRESH_INTERVAL; pages is
\* what CoinGecko serves during this refresh
LoadStart(pages, refresh_interval) ==
    /\ load_pc = "idle"
    /\ nrefresh = 0 \/ clock - last_coingecko_update > refresh_interval
    /\ upstream' = pages
    /\ load_pc' = "fetch"
    /\ load_page' = 1
    /\ load_data' = <<>>
    /\ load_cache' = <<>>
    /\ load_seen' = <<>>
    /\ load_failed' = FALSE
    /\ load_old' = coingecko_cache
    /\ UNCHANGED <<clock, cm_coingecko_cache, cm_last_coingecko_update, coingecko_cache,
                   last_coingecko_update, last_success, nrefresh>>
    /\ UNCHANGED <<op, windowVars, throttleVars, mainVars>>

\* requests.get of one page: it raises (ok = FALSE) or gives the page's coins,
\* none when the page is past the last one
LoadFetchPage(ok) ==
    /\ load_pc = "fetch"
    /\ LET data == IF load_page <= Len(upstream) THEN upstream[load_page] ELSE <<>>
       IN  IF ~ok
           THEN /\ load_failed' = TRUE
                /\ load_pc' = "publish"
                /\ UNCHANGED load_data
           ELSE /\ load_pc' = IF data = <<>> THEN "publish" ELSE "dedup"
                /\ load_data' = data
                /\ UNCHANGED load_failed
    /\ UNCHANGED <<clock, cm_coingecko_cache, cm_last_coingecko_update, coingecko_cache,
                   last_coingecko_update, upstream, load_page, load_cache, load_seen,
                   load_old, last_success, nrefresh>>
    /\ UNCHANGED <<op, windowVars, throttleVars, mainVars>>

\* one pass of "for coin in data", and after the last coin page += 1 with the
\* page limit
LoadDedupCoin ==
    /\ load_pc = "dedup"
    /\ load_cache' = DedupCoin(load_cache, Head(load_data))
    /\ load_seen' = Append(load_seen, Head(load_data))
    /\ load_data' = Tail(load_data)
    /\ IF Tail(load_data) = <<>>
       THEN /\ load_page' = load_page + 1
            /\ load_pc' = IF load_page + 1 > MaxPages THEN "publish" ELSE "fetch"
       ELSE UNCHANGED <<load_page, load_pc>>
    /\ UNCHANGED <<clock, cm_coingecko_cache, cm_last_coingecko_update, coingecko_cache,
                   last_coingecko_update, upstream, load_failed, load_old, last_success,
                   nrefresh>>
    /\ UNCHANGED <<op, windowVars, throttleVars, mainVars>>

\* after the loop: coingecko_cache = cache; last_coingecko_update = time.time()
LoadPublish ==
    /\ load_pc = "publish"
    /\ coingecko_cache' = load_cache
    /\ last_coingecko_update' = clock
    /\ last_success' = IF load_failed THEN last_success ELSE clock
    /\ load_pc' = "idle"
    /\ nrefresh' = nrefresh + 1
    /\ UNCHANGED <<clock, cm_coingecko_cache, cm_last_coingecko_update, upstream,
                   load_page, load_data, load_cache, load_seen, load_failed, load_old>>
    /\ UNCHANGED <<op, windowVars, throttleVars, mainVars>>

\* get_mc_fdv_from_symbol(binance_symbol), called by the loop body of
\* update_and_check_market, which main() runs only after a refresh has returned
get_mc_fdv_from_symbol(binance_symbol) ==
    /\ load_pc = "idle"
    /\ op' = [name |-> "get_mc_fdv_from_symbol", args |-> <<binance_symbol>>,
              ret |-> GetMcFdv(coingecko_cache, binance_symbol)]
    /\ UNCHANGED <<windowVars, throttleVars, mainVars, refVars>>

\* CacheManager.update_coingecko_cache(cache)
update_coingecko_cache(cache) ==
    /\ cm_coingecko_cache' = [symbol \in DOMAIN cache |->
                                 [mc |-> cache[symbol].mc, fdv |-> cache[symbol].fdv]]
    /\ cm_last_coingecko_update' = clock
    /\ op' = [name |-> "update_coingecko_cache", args |-> <<cache>>, ret |-> None]
    /\ nrefresh' = nrefresh + 1
    /\ UNCHANGED <<clock, coingecko_cache, last_coingecko_update, upstream, load_pc,
                   load_page, load_data, load_cache, load_seen, load_failed, load_old,
                   last_success>>
    /\ UNCHANGED <<windowVars, throttleVars, mainVars>>

\* CacheManager.should_refresh_coingecko(refresh_interval)
should_refresh_coingecko(refresh_interval) ==
    /\ op' = [name |-> "should_refresh_coingecko", args |-> <<refresh_interval>>,
              ret |-> clock - cm_last_coingecko_update > refresh_interval]
    /\ UNCHANGED <<windowVars, throttleVars, mainVars, refVars>>

\* CacheManager.get_mc_fdv(binance_symbol)
get_mc_fdv(binance_symbol) ==
    /\ op' = [name |-> "get_mc_fdv", args |-> <<binance_symbol>>,
              ret |-> GetMcFdv(cm_coingecko_cache, binance_symbol)]
    /\ UNCHANGED <<windowVars, throttleVars, mainVars, refVars>>

-----------------------------------------------------------------------------
(* Specification of one build of the reference table: load_coingecko_marketcaps
   run once over every short sequence of coins, in pages of every size *)

MaxCoins == 3

Coin(symbol, mc, fdv) ==
    [symbol |-> symbol, market_cap |-> mc, fully_diluted_valuation |-> fdv]

eth == <<"e", "t", "h">>
btc == <<"b", "t", "c">>

BuildCoins ==
    {Coin(eth, <<300>>, <<400>>), Coin(eth, <<250>>, <<350>>), Coin(eth, <<300>>, <<999>>),
     Coin(eth, None, <<7>>), Coin(eth, <<0>>, <<8>>), Coin(btc, <<300>>, <<400>>)}

\* the sequences of 1..n members of S
SeqsUpTo(S, n) == UNION {[1..k -> S] : k \in 1..n}

Min(a, b) == IF a <= b THEN a ELSE b

\* the coins of seq as CoinGecko serves them with per_page = k
Paginate(seq, k) ==
    [i \in 1..((Len(seq) + k - 1) \div k) |->
        SubSeq(seq, (i - 1) * k + 1, Min(i * k, Len(seq)))]

BuildUpstreams ==
    {Paginate(seq, k) : seq \in SeqsUpTo(BuildCoins, MaxCoins), k \in 1..MaxCoins}

InitBuild ==
    /\ window_seconds \in {1}
    /\ alert_reset_seconds \in {1}
    /\ min_interval \in {0}
    /\ CacheManagerInit
    /\ MainInit

BuildLoadStart ==
    /\ nrefresh = 0
    /\ \E pages \in BuildUpstreams : LoadStart(pages, 1)

LoadFetchPageAny == \E ok \in BOOLEAN : LoadFetchPage(ok)

NextBuild == BuildLoadStart \/ LoadFetchPageAny \/ LoadDedupCoin \/ LoadPublish

SpecBuild == InitBuild /\ [][NextBuild]_vars

\* the positions of seq whose coin has the symbol (upper-cased)
CoinsOf(seq, symbol) == {i \in 1..Len(seq) : Upper(seq[i].symbol) = symbol}

\* the first position among those of the symbol with the largest cap, a missing
\* cap counting as 0
BestOf(seq, symbol) ==
    CHOOSE i \in CoinsOf(seq, symbol) :
        /\ \A j \in CoinsOf(seq, symbol) :
               McOrZero(seq[j].market_cap) <= McOrZero(seq[i].market_cap)
        /\ \A j \in CoinsOf(seq, symbol) :
               McOrZero(seq[j].market_cap) = McOrZero(seq[i].market_cap) => i <= j

BestTable(seq) ==
    [symbol \in {Upper(seq[i].symbol) : i \in 1..Len(seq)} |->
        [mc |-> seq[BestOf(seq, symbol)].market_cap,
         fdv |-> seq[BestOf(seq, symbol)].fully_diluted_valuation]]

\* C14: the table built from a sequence of (symbol, mc, fdv) entries holds, for
\* each symbol, the entry with the largest market cap (a missing cap counts as
\* 0), the first one among those of equal largest cap; this holds after every
\* entry visited and for the table that is published.
C14_KeepsLargestCapFirst ==
    /\ load_cache = BestTable(load_seen)
    /\ (load_pc = "idle" /\ nrefresh > 0) => coingecko_cache = BestTable(load_seen)

\* the table published for [(ETH,300,400), (ETH,300,999)] maps ETH to (300,400)
C14_Witness ==
    /\ load_pc = "idle"
    /\ nrefresh > 0
    /\ load_seen = <<Coin(eth, <<300>>, <<400>>), Coin(eth, <<300>>, <<999>>)>>
    /\ coingecko_cache = (<<"E", "T", "H">> :> [mc |-> <<300>>, fdv |-> <<400>>])

-----------------------------------------------------------------------------
(* Specification of the reference cache in use: refreshes of main.py, cache
   updates of CacheManager, staleness tests and lookups, while time passes *)

MaxClockTicks == 3
MaxRefresh == 2
\* COINGECKO_REFRESH_INTERVAL, in ticks
RefreshInterval == 2

\* what CoinGecko serves: ETH and BTC on two pages, or ETH alone with other figures
RefUpstreams ==
    {<<<<Coin(eth, <<300>>, <<400>>)>>, <<Coin(btc, <<300>>, <<400>>)>>>>,
     <<<<Coin(eth, <<250>>, <<350>>)>>>>}

LookupSymbols == {BTCUSDT, ETHUSDT}

\* the coins of the first n pages, in order
RECURSIVE CoinsOfPages(_, _)
CoinsOfPages(pages, n) ==
    IF n = 0 THEN <<>> ELSE CoinsOfPages(pages, n - 1) \o pages[n]

\* the dedup loop over a sequence of coins
RECURSIVE DedupAll(_, _)
DedupAll(cache, coins) ==
    IF coins = <<>> THEN cache ELSE DedupAll(DedupCoin(cache, Head(coins)), Tail(coins))

\* AsyncCoinGeckoClient.load_marketcaps when the first nok page fetches succeed:
\* the cache it returns
LoadMarketcaps(pages, nok) == DedupAll(<<>>, CoinsOfPages(pages, nok))

InitRef ==
    /\ window_seconds \in {1}
    /\ alert_reset_seconds \in {1}
    /\ min_interval \in {0}
    /\ CacheManagerInit
    /\ MainInit

RefTick ==
    /\ clock < StartTime + MaxClockTicks
    /\ Tick

RefLoadStart ==
    /\ nrefresh < MaxRefresh
    /\ \E pages \in RefUpstreams : LoadStart(pages, RefreshInterval)

RefMainLookup == \E symbol \in LookupSymbols : get_mc_fdv_from_symbol(symbol)

RefUpdateCache ==
    /\ nrefresh < MaxRefresh
    /\ \E pages \in RefUpstreams : \E nok \in 0..Len(pages) :
           update_coingecko_cache(LoadMarketcaps(pages, nok))

RefShouldRefresh == should_refresh_coingecko(RefreshInterval)

RefLookup == \E symbol \in LookupSymbols : get_mc_fdv(symbol)

NextRef ==
    \/ RefTick
    \/ RefLoadStart
    \/ LoadFetchPageAny
    \/ LoadDedupCoin
    \/ LoadPublish
    \/ RefMainLookup
    \/ RefUpdateCache
    \/ RefShouldRefresh
    \/ RefLookup

SpecRef == InitRef /\ [][NextRef]_vars

-----------------------------------------------------------------------------
(* Claims on the reference cache (SpecRef) *)

\* the complete new map of the running or last refresh: the table of all the
\* coins CoinGecko serves
CompleteNewMap == BestTable(CoinsOfPages(upstream, Len(upstream)))

\* C15: a refresh is published by one atomic swap and never blocks lookups.
\* While a refresh is in progress the visible map is still the complete old
\* map and a lookup can be served; once the refresh is over the visible map is
\* the complete old map or the complete new map, never a partially built one.
\* Lookups in CacheManager can always be served.
C15_AtomicSwapNoBlocking ==
    /\ load_pc # "idle" => coingecko_cache = load_old
    /\ load_pc # "idle" => ENABLED RefMainLookup
    /\ load_pc = "idle" => coingecko_cache \in {load_old, CompleteNewMap}
    /\ ENABLED RefLookup

\* C16: the staleness test is true exactly when the time since the last
\* successful refresh is greater than the refresh interval.  A refresh with a
\* failed page fetch is not a successful one and leaves the test as it was, so
\* main.py's test (between refreshes) agrees with the time of the last refresh
\* that had no failed fetch; should_refresh_coingecko returns TRUE exactly when
\* the time since the last cache update is greater than its argument.
C16_StaleSinceLastSuccess ==
    [][/\ load_pc' = "idle" =>
              ((clock' - last_coingecko_update' > RefreshInterval)
                  <=> (clock' - last_success' > RefreshInterval))
       /\ (op' # op /\ op'.name = "should_refresh_coingecko") =>
              (op'.ret <=> (clock - cm_last_coingecko_update > op'.args[1]))]_vars

\* C17: a lookup is a pure read.  For a base asset absent from the cache it
\* returns (N/A, N/A, None, None), for a present one the stored mc and fdv, and
\* it changes neither cache map nor last-refresh time; this holds for get_mc_fdv
\* of CacheManager and for get_mc_fdv_from_symbol of main.py.
C17_LookupPureRead ==
    [][(op' # op /\ op'.name \in {"get_mc_fdv", "get_mc_fdv_from_symbol"}) =>
          LET cache == IF op'.name = "get_mc_fdv" THEN cm_coingecko_cache
                                                  ELSE coingecko_cache
              base == extract_base_asset(op'.args[1])
          IN  /\ base \notin DOMAIN cache =>
                    op'.ret = [mc_str |-> <<NA>>, fdv_str |-> <<NA>>,
                               mc_val |-> None, fdv_val |-> None]
              /\ base \in DOMAIN cache =>
                    /\ op'.ret.mc_val = cache[base].mc
                    /\ op'.ret.fdv_val = cache[base].fdv
              /\ UNCHANGED <<cm_coingecko_cache, cm_last_coingecko_update,
                             coingecko_cache, last_coingecko_update>>]_vars

\* main.py has looked up BTCUSDT in a refreshed cache that holds ETH but not
\* BTC, and got the unknown result
C17_Witness ==
    /\ op.name = "get_mc_fdv_from_symbol"
    /\ op.args = <<BTCUSDT>>
    /\ op.ret.mc_val = None
    /\ op.ret.mc_str = <<NA>>
    /\ DOMAIN coingecko_cache = {<<"E", "T", "H">>}
    /\ DOMAIN cm_coingecko_cache = {<<"E", "T", "H">>, <<"B", "T", "C">>}

-----------------------------------------------------------------------------
(* Specification of the open-interest lookup alone: fetch_open_interest_stats
   of main.py and of AsyncBinanceClient, which share their logic, called for
   every behaviour of the upstream *)

\* how many requests the upstream is prepared to answer for one lookup
MaxAttempts == 3

\* sumOpenInterestValue figures; limit=2 asks for at most two of them
OIValues == {0, 100}
OIOutcomes == {Raises} \cup {Gives(hist) : hist \in {<<>>} \cup SeqsUpTo(OIValues, 2)}

Markets == {"um", "cm"}

BTCUSD_PERP == <<"B", "T", "C", "U", "S", "D", "_", "P", "E", "R", "P">>
OISymbols == {BTCUSDT, BTCUSDC, ETHUSDT, BTCUSD_PERP}

fetch_open_interest_stats(symbol, market, attempts) ==
    LET r == FetchOpenInterestStats(attempts, 1, TRUE)
    IN  /\ op' = [name |-> "fetch_open_interest_stats", args |-> <<symbol, market>>,
                  ret |-> r.ret]
        /\ upstream_calls' = r.calls
        /\ UNCHANGED <<loop_now_ts, tickers, idx, cycles, price_history,
                       last_alert_key_time, alert_streak_state, alert_last_message_id,
                       msg_seq, event, alert_log, cycle_trace, delivery_hist, main_pc,
                       driver>>
        /\ UNCHANGED <<windowVars, throttleVars, refVars>>

InitOI ==
    /\ window_seconds \in {1}
    /\ alert_reset_seconds \in {1}
    /\ min_interval \in {0}
    /\ CacheManagerInit
    /\ MainInit

OIFetchOpenInterestStats ==
    \E symbol \in OISymbols, market \in Markets,
       attempts \in [1..MaxAttempts -> OIOutcomes] :
        fetch_open_interest_stats(symbol, market, attempts)

NextOI == OIFetchOpenInterestStats

SpecOI == InitOI /\ [][NextOI]_vars

\* C18: fetch_open_interest_stats always returns a value.  It makes one request
\* or two; it makes the second exactly when the first raised; when both raised
\* it returns the unavailable marker (N/A, N/A, None), else what the last
\* request's answer gives.
C18_OneRetryThenUnavailable ==
    op.name = "fetch_open_interest_stats" =>
        /\ Len(upstream_calls) \in {1, 2}
        /\ Len(upstream_calls) = 2 <=> upstream_calls[1].raises
        /\ DOMAIN op.ret = {"oi_str", "oi_change_str", "oi_value_usd"}
        /\ op.ret = IF upstream_calls[Len(upstream_calls)].raises
                    THEN Unavailable
                    ELSE OpenInterestOf(upstream_calls[Len(upstream_calls)].hist)

\* a lookup whose request and retry both raised, answered by the marker
C18_Witness ==
    /\ op.name = "fetch_open_interest_stats"
    /\ Len(upstream_calls) = 2
    /\ upstream_calls[1].raises
    /\ upstream_calls[2].raises
    /\ op.ret = [oi_str |-> <<NA>>, oi_change_str |-> <<NA>>, oi_value_usd |-> None]

-----------------------------------------------------------------------------
(* main.py: the enrichment and the delivery of the alerts of one cycle *)

EnrichCycles == 2

\* what one request of an open-interest lookup can do: raise, answer with an
\* empty history, answer with two data points
EnrichOutcomes == {Raises, Gives(<<>>), Gives(<<100, 103>>)}

InitEnrich ==
    /\ window_seconds = MaxWindow
    /\ alert_reset_seconds = MaxReset
    /\ min_interval = MaxInterval
    /\ CacheManagerInit
    /\ MainInit

EnrichStartCycle ==
    /\ cycles < EnrichCycles
    /\ \E dt \in 1..MaxDt, batch \in Batches : StartCycle(dt, batch)

EnrichProcessItem ==
    \E sent \in BOOLEAN, attempts \in [1..2 -> EnrichOutcomes] : ProcessItem(sent, attempts)

NextEnrich == EnrichStartCycle \/ EnrichProcessItem

SpecEnrich == InitEnrich /\ [][NextEnrich]_vars

\* the entries of the running cycle of one kind, in order
TraceOf(what) == SelectSeq(cycle_trace, LAMBDA d : d.what = what)

\* what a lookup owes its caller, from the requests it made
OwnResult(calls) ==
    IF calls[Len(calls)].raises THEN Unavailable ELSE OpenInterestOf(calls[Len(calls)].hist)

\* C19: whatever the lookups of a cycle do, the alerts of the cycle come out in
\* the order in which the events were admitted, one per admitted event, each
\* carries the result of its own lookup, and a lookup that failed for good
\* marks only its own alert as unavailable.
C19_OrderedOwnResults ==
    /\ Len(TraceOf("deliver")) = Len(TraceOf("admit"))
    /\ Len(TraceOf("lookup_end")) = Len(TraceOf("admit"))
    /\ \A i \in 1..Len(TraceOf("admit")) :
          /\ TraceOf("deliver")[i].symbol = TraceOf("admit")[i].symbol
          /\ TraceOf("lookup_end")[i].symbol = TraceOf("admit")[i].symbol
          /\ TraceOf("deliver")[i].oi = <<OwnResult(TraceOf("lookup_end")[i].calls)>>
          /\ Len(TraceOf("lookup_end")[i].calls) \in 1..2

\* a cycle with two alerts: the lookup of the first failed twice, the second
\* alert is still enriched
C19_Witness ==
    /\ Len(TraceOf("deliver")) = 2
    /\ TraceOf("lookup_end")[1].calls = <<Raises, Raises>>
    /\ TraceOf("deliver")[1].oi = <<Unavailable>>
    /\ TraceOf("deliver")[2].oi = <<OpenInterestOf(<<100, 103>>)>>
    /\ TraceOf("deliver")[1].symbol # TraceOf("deliver")[2].symbol

\* C20: in a cycle no lookup waits for another to finish (every lookup starts
\* before any lookup ends), and no alert is delivered before every lookup of
\* the cycle has ended.
C20_ConcurrentLookupsThenBarrier ==
    \A i \in 1..Len(cycle_trace) : \A j \in (i + 1)..Len(cycle_trace) :
        /\ ~(cycle_trace[i].what = "lookup_end" /\ cycle_trace[j].what = "lookup_start")
        /\ ~(cycle_trace[i].what = "deliver" /\ cycle_trace[j].what = "lookup_end")


-----------------------------------------------------------------------------
(* main.py: the OI / market-cap ratio of the alerts, with the reference table
   loaded at start-up as main() does before its loop *)

RatioCycles == 2

\* what CoinGecko serves at start-up: BTC with a cap that is missing, zero or
\* positive, ETH with a positive cap or not listed
RatioUpstreams ==
    {<<<<Coin(btc, mc, <<400>>)>>>> : mc \in {None, <<0>>, <<1000>>}}
        \cup {<<<<Coin(btc, mc, <<400>>), Coin(eth, <<500>>, None)>>>> : mc \in {None, <<1000>>}}

\* what a request of the open-interest lookup does: it raises, or answers with
\* a history whose latest figure is zero or positive
RatioOutcomes == {Raises, Gives(<<100, 0>>), Gives(<<100>>)}

InitRatio ==
    /\ window_seconds = MaxWindow
    /\ alert_reset_seconds = MaxReset
    /\ min_interval = MaxInterval
    /\ CacheManagerInit
    /\ MainInit

RatioLoadStart ==
    /\ nrefresh = 0
    /\ \E pages \in RatioUpstreams : LoadStart(pages, 1)

RatioStartCycle ==
    /\ nrefresh > 0
    /\ load_pc = "idle"
    /\ cycles < RatioCycles
    /\ \E dt \in 1..MaxDt, batch \in Batches : StartCycle(dt, batch)

RatioProcessItem ==
    \E attempts \in [1..2 -> RatioOutcomes] : ProcessItem(TRUE, attempts)

NextRatio ==
    \/ RatioLoadStart
    \/ LoadFetchPageAny
    \/ LoadDedupCoin
    \/ LoadPublish
    \/ RatioStartCycle
    \/ RatioProcessItem

SpecRatio == InitRatio /\ [][NextRatio]_vars

\* C21: the OI/MC ratio of an alert is the open-interest value over the market
\* cap whenever both are present and the market cap is positive, also when the
\* open-interest value is 0; it is N/A in every other case.
C21_RatioAvailability ==
    event.outcome = "alerted" =>
        LET oi_value_usd == event.oi[1].oi_value_usd
            mc_raw == event.mc_fdv[1].mc_val
        IN  event.oi_mc_ratio_str[1] =
                IF oi_value_usd # None /\ mc_raw # None /\ mc_raw[1] > 0
                THEN <<oi_value_usd[1], mc_raw[1], "%">>
                ELSE <<NA>>


-----------------------------------------------------------------------------
(* main.py: which instruments become candidates, with the default settings
   in seconds: a 15-minute window, a cycle every 60 seconds *)

\* WINDOW_MINUTES * 60, CHECK_INTERVAL_SECONDS, ALERT_MIN_INTERVAL_SECONDS
CandidateWindow == 900
CandidateDt == 60
CandidateInterval == 60

CandidateCycles == 3

\* prices around 100: 3% below, 2% below, 3% above
CandidatePriceTexts == {<<"9", "7">>, <<"9", "8">>, <<"1", "0", "0">>, <<"1", "0", "3">>}

CandidateBatches ==
    {<<[symbol |-> BTCUSDT, lastPrice |-> p], [symbol |-> BTCUSDC, lastPrice |-> q]>> :
        p \in CandidatePriceTexts, q \in CandidatePriceTexts}

InitCandidate ==
    /\ window_seconds = CandidateWindow
    /\ alert_reset_seconds = ScenarioReset
    /\ min_interval = CandidateInterval
    /\ CacheManagerInit
    /\ MainInit

CandidateStartCycle ==
    /\ cycles < CandidateCycles
    /\ \E batch \in CandidateBatches : StartCycle(CandidateDt, batch)

CandidateProcessItem == ProcessItem(TRUE, MainAttempts)

NextCandidate == CandidateStartCycle \/ CandidateProcessItem

SpecCandidate == InitCandidate /\ [][NextCandidate]_vars

\* the window of the instrument the loop has just handled
EventWindow == price_history["um"][event.symbol]

\* C22: an instrument with a price-change result (two samples or more in its
\* window, a positive window-start price) is a candidate, that is, it goes on
\* to the throttle, exactly when the size of its change is at least 3% of the
\* window-start price; a candidate is UP when the price rose and DOWN when it
\* fell.  Samples 100 and, 60 seconds later, 97 give a DOWN candidate.
C22_CandidateAtThreshold ==
    event.outcome \in {"short", "bad_base", "below", "throttled", "alerted"} =>
        LET base_price == EventWindow[1][2]
            last_price == EventWindow[Len(EventWindow)][2]
            candidate == event.outcome \in {"throttled", "alerted"}
        IN  /\ (Len(EventWindow) >= 2 /\ base_price > 0) =>
                  /\ candidate <=> Abs(last_price - base_price) * 100 >= 3 * base_price
                  /\ candidate /\ last_price > base_price => event.direction = "UP"
                  /\ candidate /\ last_price < base_price => event.direction = "DOWN"
            /\ (/\ Len(EventWindow) = 2
                /\ EventWindow[2][1] - EventWindow[1][1] = 60
                /\ base_price = 100
                /\ last_price = 97) => candidate /\ event.direction = "DOWN"

\* the scenario: 100, then 97 after 60 seconds, alerted as DOWN
C22_Witness ==
    /\ event.outcome = "alerted"
    /\ event.direction = "DOWN"
    /\ Len(EventWindow) = 2
    /\ EventWindow[2][1] - EventWindow[1][1] = 60
    /\ EventWindow[1][2] = 100
    /\ EventWindow[2][2] = 97


-----------------------------------------------------------------------------
(* main.py: the delivery of the alerts, its reply-to hint and its failures,
   over cycles one tick apart in which the price falls or rises in steps *)

DeliverCycles == 5
DeliverWindow == 2

\* lastPrice texts: "94", "97" and "100", each step a change of 3% or more
DeliverPriceTexts == {<<"9", "4">>, <<"9", "7">>, <<"1", "0", "0">>}

\* the two BTC instruments quote the same price
DeliverBatches ==
    {<<[symbol |-> BTCUSDT, lastPrice |-> p], [symbol |-> BTCUSDC, lastPrice |-> p]>> :
        p \in DeliverPriceTexts}

InitDeliver ==
    /\ window_seconds = DeliverWindow
    /\ alert_reset_seconds = MaxReset
    /\ min_interval \in 1..MaxInterval
    /\ CacheManagerInit
    /\ MainInit

DeliverStartCycle ==
    /\ cycles < DeliverCycles
    /\ \E batch \in DeliverBatches : StartCycle(1, batch)

DeliverProcessItem == \E sent \in BOOLEAN : ProcessItem(sent, MainAttempts)

NextDeliver == DeliverStartCycle \/ DeliverProcessItem

SpecDeliver == InitDeliver /\ [][NextDeliver]_vars

\* the step delivers an alert
Delivers == idx' = idx + 1 /\ event'.outcome = "alerted"

\* the (base asset, direction) of the alert the step delivers
DeliveredKey == AlertKey(extract_base_asset(event'.symbol), event'.direction)

\* C23: an alert carries a reply-to hint only if its streak count is above 1,
\* and the hint is the identifier the most recent successful delivery of the
\* same (base asset, direction) returned; an alert with count 1 carries none.
\* The side-map entry of a key changes exactly in the steps that deliver an
\* alert of that key successfully, and it becomes the returned identifier.
C23_ReplyHint ==
    [][/\ Delivers =>
             /\ event'.reply_to # None =>
                   /\ event'.count > 1
                   /\ DeliveredKey \in DOMAIN delivery_hist.by_key
                   /\ event'.reply_to = delivery_hist.by_key[DeliveredKey].last_ok
             /\ event'.count = 1 => event'.reply_to = None
             /\ event'.message_id # None =>
                   /\ DeliveredKey \in DOMAIN alert_last_message_id'
                   /\ alert_last_message_id'[DeliveredKey] = event'.message_id[1]
       /\ \A k \in DOMAIN alert_last_message_id' :
             (k \notin DOMAIN alert_last_message_id
                \/ alert_last_message_id'[k] # alert_last_message_id[k]) =>
                 Delivers /\ k = DeliveredKey /\ event'.message_id # None
       /\ DOMAIN alert_last_message_id \subseteq DOMAIN alert_last_message_id']_vars

\* the third alert of a streak, threaded onto the second, which was threaded
\* onto the first
C23_Witness ==
    /\ event.outcome = "alerted"
    /\ event.count = 3
    /\ event.reply_to = <<2>>
    /\ event.message_id = <<3>>
    /\ alert_last_message_id[AlertKey(BTC, event.direction)] = 3

\* C24: after a delivery for (base asset, direction) has failed, the next alert
\* of that key carries no reply-to hint, whatever its streak count and whatever
\* was delivered for the key before the failure.
C24_NoThreadAfterFailure ==
    [][(/\ Delivers
        /\ DeliveredKey \in DOMAIN delivery_hist.by_key
        /\ delivery_hist.by_key[DeliveredKey].ret = None)
           => event'.reply_to = None]_vars

\* C25: every admitted event makes one send call and no more; a failed send
\* leaves the throttle time and the streak record of the event in place; two
\* send calls for the same (base asset, direction) are at least min_interval
\* apart.
C25_OneDeliveryPerEvent ==
    [][/\ delivery_hist'.calls = Cardinality(alert_log')
       /\ delivery_hist'.calls - delivery_hist.calls \in {0, 1}
       /\ Delivers =>
             /\ delivery_hist'.calls = delivery_hist.calls + 1
             /\ DeliveredKey \in DOMAIN last_alert_key_time'
             /\ last_alert_key_time'[DeliveredKey] = loop_now_ts
             /\ extract_base_asset(event'.symbol) \in DOMAIN alert_streak_state'
             /\ alert_streak_state'[extract_base_asset(event'.symbol)].last_dir
                    = event'.direction
             /\ IF event'.direction = "UP"
                THEN alert_streak_state'[extract_base_asset(event'.symbol)].last_up_ts
                         = loop_now_ts
                ELSE alert_streak_state'[extract_base_asset(event'.symbol)].last_down_ts
                         = loop_now_ts
             /\ DeliveredKey \in DOMAIN delivery_hist.by_key =>
                    loop_now_ts - delivery_hist.by_key[DeliveredKey].time >= min_interval
       /\ ~Delivers => delivery_hist'.calls = delivery_hist.calls]_vars

\* a send failed, and one tick later, inside min_interval, the same key is
\* throttled: nothing is sent again
C25_Witness ==
    /\ min_interval = 2
    /\ event.outcome = "throttled"
    /\ event.symbol = BTCUSDT
    /\ AlertKey(BTC, event.direction) \in DOMAIN delivery_hist.by_key
    /\ delivery_hist.by_key[AlertKey(BTC, event.direction)].ret = None
    /\ delivery_hist.by_key[AlertKey(BTC, event.direction)].time = loop_now_ts - 1


-----------------------------------------------------------------------------
(* main.py: cycles whose ticker fetch raises or returns nothing *)

FetchCycles == 4

\* what a ticker fetch returns when it does not raise: a batch, or nothing
FetchBatches == Batches \cup {<<>>}

InitFetch ==
    /\ window_seconds = MaxWindow
    /\ alert_reset_seconds = MaxReset
    /\ min_interval = MaxInterval
    /\ CacheManagerInit
    /\ MainInit

FetchStartCycle ==
    /\ cycles < FetchCycles
    /\ \E batch \in FetchBatches : StartCycle(1, batch)

FetchFails ==
    /\ cycles < FetchCycles
    /\ FetchRaises(1)

FetchProcessItem == \E sent \in BOOLEAN : ProcessItem(sent, MainAttempts)

NextFetch == FetchStartCycle \/ FetchFails \/ FetchProcessItem

SpecFetch == InitFetch /\ [][NextFetch]_vars

\* C26: a cycle whose ticker fetch fails or returns an empty batch is not
\* fatal.  main() keeps running and is ready for the next cycle, the cycle
\* delivers nothing, and the windows, the throttle times, the streak records
\* and the last-message ids are after the cycle what they were before it.
C26_FailedFetchNotFatal ==
    [][/\ main_pc' = "running"
       /\ (cycles' # cycles /\ tickers' = <<>>) =>
             /\ idx' > Len(tickers')
             /\ UNCHANGED <<price_history, last_alert_key_time, alert_streak_state,
                            alert_last_message_id, msg_seq, delivery_hist>>]_vars


-----------------------------------------------------------------------------
(* extract_base_asset over the symbols of the exchange, and the throttle of
   main.py for a perpetual and a dated future of the same underlying *)

NormalizeCycles == 2

BTCUSDT_250627 == BTCUSDT \o <<"_", "2", "5", "0", "6", "2", "7">>
ETHFDUSD == <<"E", "T", "H">> \o FDUSD
USDCUSDT == USDC \o USDT

NormalizeSymbols ==
    {BTCUSDT, BTCUSDC, ETHUSDT, BTCUSD_PERP, ETHFDUSD, USDCUSDT, BTCUSDT_250627}

\* a call of extract_base_asset
ExtractBaseAsset(binance_symbol) ==
    /\ op' = [name |-> "extract_base_asset", args |-> <<binance_symbol>>,
              ret |-> extract_base_asset(binance_symbol)]
    /\ UNCHANGED <<windowVars, throttleVars, mainVars, refVars>>

\* the perpetual and the dated future quote the same price
NormalizeBatches ==
    {<<[symbol |-> BTCUSDT, lastPrice |-> p],
       [symbol |-> BTCUSDT_250627, lastPrice |-> p]>> : p \in PriceTexts}

InitNormalize ==
    /\ window_seconds = MaxWindow
    /\ alert_reset_seconds = MaxReset
    /\ min_interval \in 1..MaxInterval
    /\ CacheManagerInit
    /\ MainInit

NormalizeStartCycle ==
    /\ cycles < NormalizeCycles
    /\ \E batch \in NormalizeBatches : StartCycle(1, batch)

NormalizeProcessItem == \E sent \in BOOLEAN : ProcessItem(sent, MainAttempts)

NormalizeCall == \E symbol \in NormalizeSymbols : ExtractBaseAsset(symbol)

NextNormalize == NormalizeStartCycle \/ NormalizeProcessItem \/ NormalizeCall

SpecNormalize == InitNormalize /\ [][NextNormalize]_vars

\* the underlying asset of the instruments above
UnderlyingOf(symbol) ==
    IF symbol \in {BTCUSDT, BTCUSDC, BTCUSD_PERP, BTCUSDT_250627} THEN BTC
    ELSE IF symbol \in {ETHUSDT, ETHFDUSD} THEN ETH
    ELSE USDC

\* C27: the base asset of an instrument is its underlying: BTCUSDT, BTCUSD_PERP
\* and the dated future BTCUSDT_250627 give BTC, ETHFDUSD gives ETH, and only
\* one quote suffix is stripped (USDCUSDT gives USDC).  Instruments of the same
\* underlying share the throttle: two events of one underlying and direction
\* that passed the throttle are at least min_interval apart.
C27_SameUnderlyingSameKey ==
    /\ op.name = "extract_base_asset" => op.ret = UnderlyingOf(op.args[1])
    /\ \A e1 \in alert_log : \A e2 \in alert_log :
          (/\ e1 # e2
           /\ UnderlyingOf(e1[1]) = UnderlyingOf(e2[1])
           /\ e1[2] = e2[2]
           /\ e1[3] <= e2[3]) => e2[3] - e1[3] >= min_interval


-----------------------------------------------------------------------------
(* main.py: batches in which one quote is malformed or worthless *)

SkipCycles == 3

\* lastPrice texts of the offending instrument: not a number, zero, or a price
SkipPriceTexts == {<<"x">>, <<"0">>, <<"1", "0", "0">>}

SkipBatches ==
    {<<[symbol |-> BTCUSDT, lastPrice |-> p], [symbol |-> ETHUSDT, lastPrice |-> q]>> :
        p \in SkipPriceTexts, q \in PriceTexts}

InitSkip ==
    /\ window_seconds = MaxWindow
    /\ alert_reset_seconds = MaxReset
    /\ min_interval = MaxInterval
    /\ CacheManagerInit
    /\ MainInit

SkipStartCycle ==
    /\ cycles < SkipCycles
    /\ \E batch \in SkipBatches : StartCycle(1, batch)

SkipProcessItem == \E sent \in BOOLEAN : ProcessItem(sent, MainAttempts)

NextSkip == SkipStartCycle \/ SkipProcessItem

SpecSkip == InitSkip /\ [][NextSkip]_vars

\* the text is not a decimal number
Malformed(text) ==
    text = <<>> \/ \E i \in 1..Len(text) : text[i] \notin {Digits[k] : k \in 1..Len(Digits)}

\* every window but the one of symbol is after the step what it was before
OtherWindowsKept(symbol) ==
    /\ DOMAIN price_history'["um"] \ {symbol} = DOMAIN price_history["um"] \ {symbol}
    /\ \A s \in DOMAIN price_history["um"] \ {symbol} :
          price_history'["um"][s] = price_history["um"][s]

\* C28: an item whose price is malformed, or whose window starts with a price
\* of 0 or less, is skipped and nothing else: the loop goes on to the next
\* item, nothing is sent, and the throttle times, streak records, message ids
\* and the windows of the other instruments are what they were, so the other
\* items of the batch are handled as if the offending one were not there.  A
\* malformed price does not even enter the instrument's own window.
C28_OffendingItemSkipped ==
    [][idx' = idx + 1 =>
          LET symbol == tickers[idx].symbol
              malformed == Malformed(tickers[idx].lastPrice)
              bad_base == /\ ~malformed
                          /\ Len(price_history'["um"][symbol]) >= 2
                          /\ price_history'["um"][symbol][1][2] <= 0
          IN  /\ malformed => /\ UNCHANGED price_history
                              /\ event'.outcome = "bad_price"
              /\ bad_base => /\ OtherWindowsKept(symbol)
                             /\ event'.outcome = "bad_base"
              /\ malformed \/ bad_base =>
                    /\ main_pc' = "running"
                    /\ UNCHANGED <<last_alert_key_time, alert_streak_state,
                                   alert_last_message_id, msg_seq, delivery_hist,
                                   alert_log, tickers>>]_vars

\* a cycle in which BTCUSDT was skipped for a window that starts at price 0
\* and ETHUSDT, next in the batch, was alerted
C28_Witness ==
    /\ idx = 3
    /\ Len(tickers) = 2
    /\ tickers[1].symbol = BTCUSDT
    /\ BTCUSDT \in DOMAIN price_history["um"]
    /\ Len(price_history["um"][BTCUSDT]) >= 2
    /\ price_history["um"][BTCUSDT][1][2] = 0
    /\ price_history["um"][BTCUSDT][Len(price_history["um"][BTCUSDT])][1] = loop_now_ts
    /\ event.outcome = "alerted"
    /\ event.symbol = ETHUSDT
    /\ \A k \in DOMAIN last_alert_key_time : k \in {AlertKey(ETH, "UP"), AlertKey(ETH, "DOWN")}


-----------------------------------------------------------------------------
(* Frame and order of the price windows (SpecWindow) *)

\* C29: update_price changes the window of its own instrument and no other
\* window, and get_price_change changes no window and creates none, not even
\* for an instrument it has never seen.
C29_IngestTouchesOwnWindow ==
    [][/\ ningest' # ningest =>
             /\ op'.name = "update_price"
             /\ DOMAIN cm_price_history' = DOMAIN cm_price_history
             /\ DOMAIN cm_price_history'["um"] =
                    DOMAIN cm_price_history["um"] \cup {op'.args[1]}
             /\ \A s \in DOMAIN cm_price_history["um"] \ {op'.args[1]} :
                    cm_price_history'["um"][s] = cm_price_history["um"][s]
       /\ ningest' = ningest => cm_price_history' = cm_price_history]_vars

\* get_price_change was asked about an instrument never ingested, while the
\* other instrument has a window of two samples: there is still no window for it
C29_Witness ==
    /\ op.name = "get_price_change"
    /\ op.args[1] = ETHUSDT
    /\ DOMAIN cm_price_history["um"] = {BTCUSDT}
    /\ Len(cm_price_history["um"][BTCUSDT]) = 2

\* C30: the samples of every window are in non-decreasing order of timestamp,
\* oldest first, after any sequence of update_price calls.
C30_WindowsTimeOrdered ==
    \A s \in DOMAIN cm_price_history["um"] :
        \A i \in 1..Len(cm_price_history["um"][s]) :
            \A j \in i..Len(cm_price_history["um"][s]) :
                cm_price_history["um"][s][i][1] <= cm_price_history["um"][s][j][1]


-----------------------------------------------------------------------------
(* main.py: main(), the cycle driver, with time.time() in seconds *)

DriverCycles == 3

\* CHECK_INTERVAL_SECONDS and the floor of the sleep
CHECK_INTERVAL_SECONDS == 60
SleepFloor == 5

\* the seconds the refresh test and the ticker fetch of one iteration can take
DriverDurations == {1, 55, 56, 70}

Max(a, b) == IF a >= b THEN a ELSE b

\* "while True: loop_start = time.time()": entered once the first call of
\* update_and_check_market has returned, and again after every sleep
DriverLoopStart ==
    /\ main_pc = "running"
    /\ driver.pc = "work"
    /\ idx > Len(tickers)
    /\ ~driver.in_loop \/ driver.slept
    /\ driver' = [driver EXCEPT !.pc = "fetch", !.in_loop = TRUE, !.loop_start = clock]
    /\ UNCHANGED <<loop_now_ts, tickers, idx, cycles, price_history, last_alert_key_time,
                   alert_streak_state, alert_last_message_id, msg_seq, event, alert_log,
                   upstream_calls, cycle_trace, delivery_hist, main_pc>>
    /\ UNCHANGED <<op, windowVars, throttleVars, refVars>>

\* the staleness test of the reference table and the ticker request of the
\* iteration take d seconds
DriverFetch(d) ==
    /\ driver.pc = "fetch"
    /\ clock' = clock + d
    /\ driver' = [driver EXCEPT !.pc = "fetched"]
    /\ UNCHANGED <<loop_now_ts, tickers, idx, cycles, price_history, last_alert_key_time,
                   alert_streak_state, alert_last_message_id, msg_seq, event, alert_log,
                   upstream_calls, cycle_trace, delivery_hist, main_pc>>
    /\ UNCHANGED <<cm_coingecko_cache, cm_last_coingecko_update, coingecko_cache,
                   last_coingecko_update, upstream, load_pc, load_page, load_data,
                   load_cache, load_seen, load_failed, load_old, last_success, nrefresh>>
    /\ UNCHANGED <<op, windowVars, throttleVars>>

\* elapsed = time.time() - loop_start; time.sleep(max(5, CHECK_INTERVAL_SECONDS - elapsed))
DriverSleep ==
    /\ driver.pc = "work"
    /\ driver.in_loop
    /\ ~driver.slept
    /\ idx > Len(tickers)
    /\ LET elapsed == clock - driver.loop_start
           sleep_time == Max(SleepFloor, CHECK_INTERVAL_SECONDS - elapsed)
       IN  clock' = clock + sleep_time
    /\ driver' = [driver EXCEPT !.slept = TRUE]
    /\ UNCHANGED <<loop_now_ts, tickers, idx, cycles, price_history, last_alert_key_time,
                   alert_streak_state, alert_last_message_id, msg_seq, event, alert_log,
                   upstream_calls, cycle_trace, delivery_hist, main_pc>>
    /\ UNCHANGED <<cm_coingecko_cache, cm_last_coingecko_update, coingecko_cache,
                   last_coingecko_update, upstream, load_pc, load_page, load_data,
                   load_cache, load_seen, load_failed, load_old, last_success, nrefresh>>
    /\ UNCHANGED <<op, windowVars, throttleVars>>

InitDriver ==
    /\ window_seconds = CandidateWindow
    /\ alert_reset_seconds = ScenarioReset
    /\ min_interval = CandidateInterval
    /\ CacheManagerInit
    /\ MainInit

\* update_and_check_market is called with the batch just fetched: at start-up
\* (line 675) and in the loop (line 723); now_ts = time.time()
DriverStartCycle ==
    /\ cycles < DriverCycles
    /\ driver.pc \in {"startup", "fetched"}
    /\ \E batch \in Batches : StartCycle(clock - loop_now_ts, batch)

\* the ticker request raises
DriverFetchFails ==
    /\ cycles < DriverCycles
    /\ driver.pc \in {"startup", "fetched"}
    /\ FetchRaises(clock - loop_now_ts)

DriverProcessItem == \E sent \in BOOLEAN : ProcessItem(sent, MainAttempts)

DriverFetchTakes == \E d \in DriverDurations : DriverFetch(d)

NextDriver ==
    \/ DriverStartCycle
    \/ DriverFetchFails
    \/ DriverProcessItem
    \/ DriverLoopStart
    \/ DriverFetchTakes
    \/ DriverSleep

SpecDriver == InitDriver /\ [][NextDriver]_vars

\* C31: cycles do not overlap and are spaced by the sleep.  A cycle starts only
\* when the cycle before it has handled all its items, deliveries included, and
\* when main() has slept since that cycle began; every sleep lasts
\* check_interval - elapsed seconds when that is 5 or more, and 5 otherwise.
C31_CyclesSpacedBySleep ==
    [][/\ cycles' = cycles + 1 => idx > Len(tickers)
       /\ (cycles' = cycles + 1 /\ cycles >= 1) => driver.slept
       /\ (driver'.slept /\ ~driver.slept) =>
             /\ clock' - clock >= 5
             /\ clock' - clock =
                    IF 60 - (clock - driver.loop_start) >= 5
                    THEN 60 - (clock - driver.loop_start)
                    ELSE 5]_vars



-----------------------------------------------------------------------------
(* The first admission test of a key *)

\* C32: a should_alert call for a key that has no stored last-alert time
\* returns True, whatever now_ts >= 0 and min_interval are
C32_FirstAdmitAlwaysTrue ==
    [][(/\ ncalls' = ncalls + 1
        /\ op'.name = "should_alert"
        /\ op'.args[3] >= 0
        /\ AlertKey(op'.args[1], op'.args[2]) \notin DOMAIN cm_last_alert_key_time)
       => op'.ret = TRUE]_vars


-----------------------------------------------------------------------------
(* A failed refresh and the entries cached before it (SpecRef) *)

\* C33: when a page fetch of a refresh has failed (on the first page or on a
\* later one), the entries that were cached before the refresh are still served
\* once the refresh is over: the published map holds every base asset of the
\* old map, so a populated cache is never replaced by an empty or smaller map
C33_FailedRefreshKeepsEntries ==
    (load_pc = "idle" /\ load_failed) =>
        /\ DOMAIN load_old \subseteq DOMAIN coingecko_cache
        /\ load_old # <<>> => coingecko_cache # <<>>


-----------------------------------------------------------------------------
(* Specification of ingestion at the limits: a window of 0 seconds, of 1 second
   or longer than the capacity, a CacheManager window filled up to the capacity
   and then fed samples at earlier, equal and later times, and cycles of
   main.py that may start in the second of the previous one *)

IngestCalls == 3
IngestCycles == 2

IngestTimes == (StartTime - 1)..(StartTime + 1)
IngestPrices == {1, 2}

IngestBatches == {<<[symbol |-> BTCUSDT, lastPrice |-> p]>> : p \in PriceTexts}

InitIngest ==
    /\ window_seconds \in {0, 1, CapWindow}
    /\ alert_reset_seconds = 1
    /\ min_interval = 1
    /\ CacheManagerInit
    /\ MainInit

\* Maxlen - 1 samples of one second
IngestFill ==
    /\ ningest < Maxlen - 1
    /\ update_price(BTCUSDT, StartTime, 1)

IngestUpdatePrice ==
    /\ ningest >= Maxlen - 1
    /\ ningest < Maxlen - 1 + IngestCalls
    /\ \E t \in IngestTimes, p \in IngestPrices : update_price(BTCUSDT, t, p)

IngestStartCycle ==
    /\ cycles < IngestCycles
    /\ \E dt \in 0..1, batch \in IngestBatches : StartCycle(dt, batch)

IngestProcessItem == ProcessItem(TRUE, MainAttempts)

NextIngest == IngestFill \/ IngestUpdatePrice \/ IngestStartCycle \/ IngestProcessItem

SpecIngest == InitIngest /\ [][NextIngest]_vars

\* C34: right after a sample (t, p) is ingested, with window_seconds >= 0, the
\* window of its instrument is non-empty and its newest sample is (t, p): the
\* call evicts the sample neither by age nor by the capacity cap.  This holds
\* for CacheManager.update_price and for the ingestion of update_and_check_market.
C34_IngestedSampleStays ==
    [][/\ (ningest' = ningest + 1 /\ op'.name = "update_price") =>
              LET w == Get(cm_price_history'["um"], op'.args[1], <<>>)
              IN  /\ w # <<>>
                  /\ w[Len(w)] = <<op'.args[2], op'.args[3]>>
       /\ (idx' = idx + 1 /\ event'.outcome \notin {"blocked", "bad_price"}) =>
              LET w == Get(price_history'["um"], tickers[idx].symbol, <<>>)
              IN  /\ w # <<>>
                  /\ w[Len(w)] = <<loop_now_ts, ParseFloat(tickers[idx].lastPrice)[1]>>]_vars

\* with a window of 0 seconds: the CacheManager window was filled to the
\* capacity, took one more sample of the same second (the cap dropped the
\* oldest), and then a sample one second later, which is alone in the window;
\* main.py has ingested a second sample in the second of the first
C34_Witness ==
    /\ window_seconds = 0
    /\ ningest = Maxlen + 1
    /\ op.name = "update_price"
    /\ op.args[2] = StartTime + 1
    /\ Window(BTCUSDT) = <<<<op.args[2], op.args[3]>>>>
    /\ cycles = 2
    /\ idx = 2
    /\ Len(Get(price_history["um"], BTCUSDT, <<>>)) = 2


-----------------------------------------------------------------------------
(* Specification of the blocked base assets: the exchange lists BTTCUSDT and
   BTTCUSD_PERP next to BTCUSDT, all three quoting the same price.  A cycle of
   main() gets its tickers through fetch_futures_24h_tickers;
   update_and_check_market is also called with the unfiltered list *)

BlockCycles == 3

BTTC == <<"B", "T", "T", "C">>
BTTCUSDT == BTTC \o USDT
BTTCUSD_PERP == BTTC \o USD \o PERP

\* resp.json() of the ticker endpoint
BlockData ==
    {<<[symbol |-> BTTCUSDT, lastPrice |-> p],
       [symbol |-> BTCUSDT, lastPrice |-> p],
       [symbol |-> BTTCUSD_PERP, lastPrice |-> p]>> : p \in PriceTexts}

\* fetch_futures_24h_tickers: the items of data whose base asset is not blocked
FetchFutures24hTickers(data) ==
    SelectSeq(data, LAMBDA item : extract_base_asset(item.symbol) \notin BLOCKED_BASES)

InitBlock ==
    /\ window_seconds = MaxWindow
    /\ alert_reset_seconds = MaxReset
    /\ min_interval \in 0..MaxInterval
    /\ CacheManagerInit
    /\ MainInit

\* main(): um_tickers = fetch_futures_24h_tickers("um"), then
\* update_and_check_market("um", um_tickers)
BlockStartCycle ==
    /\ cycles < BlockCycles
    /\ \E data \in BlockData : StartCycle(1, FetchFutures24hTickers(data))

\* update_and_check_market("um", data) on a list nobody filtered
BlockDirectCycle ==
    /\ cycles < BlockCycles
    /\ \E data \in BlockData : StartCycle(1, data)

BlockProcessItem == \E sent \in BOOLEAN : ProcessItem(sent, MainAttempts)

NextBlock == BlockStartCycle \/ BlockDirectCycle \/ BlockProcessItem

SpecBlock == InitBlock /\ [][NextBlock]_vars

\* the instruments of the blocked base asset BTTC
BlockedSymbols == {BTTCUSDT, BTTCUSD_PERP}

\* C35: an instrument whose base asset is blocked (BTTC) is never ingested (it
\* has no window), never reaches the throttle or the streak (no last-alert time,
\* no streak state, no stored message id under its base asset) and is never
\* delivered as an alert; the step that handles it changes none of these,
\* whatever price it quotes
C35_BlockedNeverHandled ==
    [][/\ \A s \in BlockedSymbols : s \notin DOMAIN price_history'["um"]
       /\ \A d \in {"UP", "DOWN"} :
              /\ AlertKey(BTTC, d) \notin DOMAIN last_alert_key_time'
              /\ AlertKey(BTTC, d) \notin DOMAIN alert_last_message_id'
       /\ BTTC \notin DOMAIN alert_streak_state'
       /\ \A e \in alert_log' : e[1] \notin BlockedSymbols
       /\ (idx' = idx + 1 /\ tickers[idx].symbol \in BlockedSymbols) =>
              /\ event'.outcome = "blocked"
              /\ UNCHANGED <<price_history, last_alert_key_time, alert_streak_state,
                             alert_last_message_id, msg_seq, alert_log>>]_vars

\* an unfiltered cycle in which all three instruments fell by 3 %: BTCUSDT was
\* alerted, BTTCUSDT before it and BTTCUSD_PERP after it were skipped
C35_Witness ==
    /\ Len(tickers) = 3
    /\ idx = 4
    /\ tickers[1].lastPrice = <<"9", "7">>
    /\ event.symbol = BTTCUSD_PERP
    /\ event.outcome = "blocked"
    /\ <<BTCUSDT, "DOWN", loop_now_ts>> \in alert_log
    /\ DOMAIN price_history["um"] = {BTCUSDT}


-----------------------------------------------------------------------------
(* Specification of the two streak counters side by side: every call is made,
   with the same arguments and the same reset timeout, to update_alert_streak
   of main.py and to CacheManager.update_alert_streak, both from fresh state *)

LegacyCalls == 3

\* now_ts of the calls: negative, zero and positive
LegacyTimes == -1..2

InitLegacy ==
    /\ window_seconds \in {1}
    /\ alert_reset_seconds \in 1..MaxReset
    /\ min_interval \in {0}
    /\ CacheManagerInit
    /\ MainInit

BothUpdateAlertStreak(base_asset, direction, now_ts) ==
    LET r == UpdateAlertStreak(cm_alert_streak_state, base_asset, direction, now_ts,
                               alert_reset_seconds)
        legacy == MainUpdateAlertStreak(alert_streak_state, base_asset, direction, now_ts,
                                        alert_reset_seconds)
    IN  /\ cm_alert_streak_state' = r.alert_streak_state
        /\ alert_streak_state' = legacy.alert_streak_state
        /\ op' = [name |-> "update_alert_streak",
                  args |-> <<base_asset, direction, now_ts>>,
                  ret |-> r.ret, legacy_ret |-> legacy.ret]
        /\ ncalls' = ncalls + 1
        /\ streak_log' = Append(streak_log,
                                [base_asset |-> base_asset, direction |-> direction,
                                 now_ts |-> now_ts, count |-> r.ret[1],
                                 minutes_since_prev |-> r.ret[2]])
        /\ UNCHANGED <<loop_now_ts, tickers, idx, cycles, price_history,
                       last_alert_key_time, alert_last_message_id, msg_seq, event,
                       alert_log, upstream_calls, cycle_trace, delivery_hist, main_pc,
                       driver>>
        /\ UNCHANGED <<refVars, windowVars, alert_reset_seconds, min_interval,
                       cm_last_alert_key_time, cm_alert_last_message_id, admitted>>

LegacyUpdateAlertStreak ==
    /\ ncalls < LegacyCalls
    /\ \E b \in Bases, d \in Directions, t \in LegacyTimes : BothUpdateAlertStreak(b, d, t)

NextLegacy == LegacyUpdateAlertStreak

SpecLegacy == InitLegacy /\ [][NextLegacy]_vars

\* C36: fed the same calls from fresh state, update_alert_streak of main.py and
\* CacheManager.update_alert_streak return the same (count, minutes_since_prev)
\* at every call and hold the same last_dir, counters and timestamps after it,
\* for negative, zero and positive timestamps
C36_LegacyEquivalent ==
    /\ alert_streak_state = cm_alert_streak_state
    /\ op.name = "update_alert_streak" => op.legacy_ret = op.ret

=============================================================================
